---- MODULE Spec2Model ----
(***************************************************************************)
(* Model of the prompt-generation service: the in-memory rate limiter      *)
(* (MemoryStore / RateLimiter), the POST /api/prompt handler and the       *)
(* quality-gate validator PromptGenerator.validatePrompt.                  *)
(*                                                                         *)
(* Time is Date.now() in milliseconds.  Strings that the code concatenates *)
(* or searches are sequences of tokens, so that concatenation and          *)
(* substring search are computed, not assumed.                             *)
(***************************************************************************)
EXTENDS Integers, Sequences, FiniteSets, TLC

VARIABLES
    store,      \* MemoryStore.store : key -> RateLimitEntry (DOMAIN = keys present)
    clock,      \* Date.now()
    ticks,      \* number of clock advances so far
    win,        \* per key: ordinal of the last call in its window, and the window end
    last,       \* the last direct checkLimit call and what it returned
    ncalls,     \* number of direct checkLimit calls so far
    apiKey,     \* process.env.OPENAI_API_KEY is set
    pc,         \* POST /api/prompt: where the handler of the current request stands
    nreq,       \* number of requests received so far
    rateLimitResult,    \* POST: what checkMultipleLimits returned
    gates,      \* POST: the gates evaluated so far for this request, with their outcome
    payload,    \* POST: size of systemPrompt + userPrompt, in characters, until it is sent
    llmReached, \* POST: llmClient.generateContent has been entered
    callLog,    \* POST: outcome of each openai.chat.completions.create call made
    llmResponse,        \* POST: what generateContent returned
    validationResults,  \* POST: what validatePrompt returned, when it ran
    resp,       \* POST: the response returned
    arrival,    \* POST: the store and the time when the current request arrived
    vtext,      \* validatePrompt: the promptText argument
    vmade,      \* what the text was assembled from
    vformat,    \* validatePrompt: the format argument
    vres,       \* validatePrompt: the value returned, once it has run
    tokLimits,  \* TokenGuard.config.limits : level -> ceiling
    tokPrev,    \* the checkTokenLimits call before the last one, and its result
    tokLast,    \* the last checkTokenLimits call, and its result
    modeIn,     \* getRequiredSectionsForMode: the rulepack and mode arguments
    modeOut,    \* getRequiredSectionsForMode: the value returned, once it has run
    mdIn,       \* parseMarkdownChecklist: the lines of the content argument
    mdOut,      \* parseMarkdownChecklist: the value returned, once it has run
    rpFiles,    \* rulepacks/format: what each (format, version) file holds
    rpCache,    \* RulepackLoader.cache : cacheKey -> rule-pack object
    rpReads,    \* number of readFile calls made by the loader
    rpPending,  \* loads whose readFile has not settled yet
    rpPreload,  \* the preloadAll in progress, if any
    rpSince,    \* cache keys loaded successfully since the last clearCache
    rpFailed,   \* cache keys of which a load has failed so far
    rpLast,     \* the last loader call, with the cache before it and its outcome
    rpCalls,    \* number of loader calls so far
    rpReturned, \* the objects returned by loads that read storage, since the last clearCache
    ccHeap,     \* the RateLimitEntry objects created so far, by reference
    ccRef,      \* Map: the object the store holds under the key, 0 for none
    ccCalls,    \* the checkLimit calls started: position, locals and result
    ccQueue,    \* the microtask queue: calls whose awaited promise has resolved
    ccBase,     \* count of the live entry of the key before the first call, 0 without one
    swStore,    \* MemoryStore.store of a second limiter, the one whose cleanup timer fires
    swLast,     \* the last call made on both limiters, and what each returned
    swPrev,     \* the call before it
    pgIn,       \* generateSystemPrompt: the config argument and the environment's ceilings
    pgOut,      \* generateSystemPrompt: the lines of the string returned, once it has run
    vcIn,       \* validateAgainstChecklist: the flat checklist and which items the content meets
    vcOut       \* validateAgainstChecklist: the value returned, once it has run

rlVars == <<store, clock, ticks, win, last, ncalls>>
valVars == <<vtext, vmade, vformat, vres>>
postVars == <<apiKey, pc, nreq, rateLimitResult, gates, payload, llmReached, callLog,
              llmResponse, validationResults, resp, arrival>>

tokVars == <<tokLimits, tokPrev, tokLast>>
modeVars == <<modeIn, modeOut>>
mdVars == <<mdIn, mdOut>>
rpVars == <<rpFiles, rpCache, rpReads, rpPending, rpPreload, rpSince, rpFailed, rpLast, rpCalls,
           rpReturned>>
ccVars == <<ccHeap, ccRef, ccCalls, ccQueue, ccBase>>
swVars == <<swStore, swLast, swPrev>>
pgVars == <<pgIn, pgOut>>
vcVars == <<vcIn, vcOut>>
extVars == <<ccVars, swVars, pgVars, vcVars>>
libVars == <<tokVars, modeVars, mdVars, rpVars, extVars>>

vars == <<store, clock, ticks, win, last, ncalls, apiKey, pc, nreq, rateLimitResult, gates,
          payload, llmReached, callLog, llmResponse, validationResults, resp, arrival,
          vtext, vmade, vformat, vres, libVars>>

-----------------------------------------------------------------------------
(* Bounds of the exploration *)

MaxCalls == 3
MaxTicks == 2
MaxReq == 3

-----------------------------------------------------------------------------
(* Rate limit configuration: RateLimiter.constructor *)

DefaultWindowMs == 900000
DefaultMaxRequests == 100
StrictWindowMs == 60000
StrictMaxRequests == 10
BurstWindowMs == 60000
BurstMaxRequests == 5
MsPerSecond == 1000

ConfigNames == {"default", "strict", "burst"}

\* keyGenerator of each configuration: a template literal, i.e. the prefix
\* followed by the identifier.
Configs ==
    [ default |-> [windowMs |-> DefaultWindowMs, maxRequests |-> DefaultMaxRequests,
                   keyPrefix |-> <<"ratelimit", ":">>,
                   skipFailedRequests |-> FALSE],
      strict  |-> [windowMs |-> StrictWindowMs, maxRequests |-> StrictMaxRequests,
                   keyPrefix |-> <<"ratelimit", ":", "strict", ":">>,
                   skipFailedRequests |-> FALSE],
      burst   |-> [windowMs |-> BurstWindowMs, maxRequests |-> BurstMaxRequests,
                   keyPrefix |-> <<"ratelimit", ":", "burst", ":">>,
                   skipFailedRequests |-> TRUE] ]

KeyOf(identifier, configName) == Configs[configName].keyPrefix \o identifier

\* Identities: token sequences.
Ip1 == <<"ip1">>
Session1 == <<"s1">>

Max(a, b) == IF a >= b THEN a ELSE b

\* Math.ceil(a / b) for an integer a and b > 0
CeilDiv(a, b) == -((-a) \div b)

EmptyStore == <<>>

\* The value of a variable that holds no call, result or response yet
NoCall == [kind |-> "none"]

\* No request has been received
PostIdle ==
    /\ apiKey = TRUE /\ pc = "idle" /\ nreq = 0
    /\ rateLimitResult = NoCall /\ gates = <<>> /\ payload = NoCall
    /\ llmReached = FALSE /\ callLog = <<>> /\ llmResponse = NoCall
    /\ validationResults = NoCall /\ resp = NoCall /\ arrival = NoCall

\* TokenGuard.constructor: the ceilings when the environment sets none
TokenLimitBasic == 300
TokenLimitIntermediate == 600
TokenLimitAdvanced == 900

Levels == {"basic", "intermediate", "advanced"}

TokenLimit(level) ==
    CASE level = "basic" -> TokenLimitBasic
      [] level = "intermediate" -> TokenLimitIntermediate
      [] level = "advanced" -> TokenLimitAdvanced

DefaultLimits == [level \in Levels |-> TokenLimit(level)]

\* The token guard with its default ceilings, not yet called
TokIdle == tokLimits = DefaultLimits /\ tokPrev = NoCall /\ tokLast = NoCall

\* Nothing resolved, parsed or loaded yet; no rule-pack file in storage
ModeIdle == modeIn = NoCall /\ modeOut = NoCall
MdIdle == mdIn = <<>> /\ mdOut = NoCall
RpIdle == rpFiles = <<>> /\ rpCache = <<>> /\ rpReads = 0 /\ rpPending = {} /\ rpPreload = NoCall
             /\ rpSince = {} /\ rpFailed = {} /\ rpLast = NoCall /\ rpCalls = 0
             /\ rpReturned = {}

\* No concurrent checkLimit call started
CcIdle == ccHeap = <<>> /\ ccRef = 0 /\ ccCalls = <<>> /\ ccQueue = <<>> /\ ccBase = 0

\* No call made on the pair of limiters
SwIdle == swStore = <<>> /\ swLast = NoCall /\ swPrev = NoCall

\* No prompt generated, no content validated against a checklist
PgIdle == pgIn = NoCall /\ pgOut = NoCall
VcIdle == vcIn = NoCall /\ vcOut = NoCall

ExtIdle == CcIdle /\ SwIdle /\ PgIdle /\ VcIdle

LibIdle == TokIdle /\ ModeIdle /\ MdIdle /\ RpIdle /\ ExtIdle

-----------------------------------------------------------------------------
(* MemoryStore *)

\* Map.set / Map.delete on the store
MapSet(st, key, entry) == (key :> entry) @@ st
MapDelete(st, key) == [k \in (DOMAIN st) \ {key} |-> st[k]]

StoreGet_KeepsExpired(st, key, t) ==
    IF key \notin DOMAIN st
    THEN [found |-> FALSE, store |-> st]
    ELSE [found |-> TRUE, entry |-> st[key], store |-> st]

\* MemoryStore.get: an expired entry is deleted and reported as absent.
\* found = FALSE stands for null.
StoreGet(st, key, t) ==
    IF key \notin DOMAIN st
    THEN [found |-> FALSE, store |-> st]
    ELSE IF t > st[key].resetTime
         THEN [found |-> FALSE, store |-> MapDelete(st, key)]
         ELSE [found |-> TRUE, entry |-> st[key], store |-> st]

\* The condition under which increment starts a new window for an entry it
\* was handed.
WindowExpired(t, entry) == t > entry.resetTime

NewEntry(t, windowMs) == [count |-> 1, resetTime |-> t + windowMs, firstRequest |-> t]

\* MemoryStore.increment
StoreIncrement(st, key, windowMs, t) ==
    LET g == StoreGet(st, key, t) IN
    IF ~g.found
    THEN [entry |-> NewEntry(t, windowMs), store |-> MapSet(g.store, key, NewEntry(t, windowMs))]
    ELSE IF WindowExpired(t, g.entry)
         THEN [entry |-> NewEntry(t, windowMs),
               store |-> MapSet(g.store, key, NewEntry(t, windowMs))]
         ELSE LET e == [g.entry EXCEPT !.count = @ + 1] IN
              [entry |-> e, store |-> MapSet(g.store, key, e)]

-----------------------------------------------------------------------------
(* RateLimiter *)

IsAllowed_Below(count, maxRequests) == count < maxRequests

\* allowed = entry.count <= config.maxRequests
IsAllowed(count, maxRequests) == count <= maxRequests

\* The RateLimitResult checkLimit builds from the entry; retryAfter is a
\* property of the result only when the call is denied.
LimitResult(entry, cfg, t) ==
    LET allowed == IsAllowed(entry.count, cfg.maxRequests)
        base == [allowed |-> allowed,
                 limit |-> cfg.maxRequests,
                 remaining |-> Max(0, cfg.maxRequests - entry.count),
                 reset |-> entry.resetTime]
    IN IF allowed
       THEN base
       ELSE [allowed |-> base.allowed, limit |-> base.limit,
             remaining |-> base.remaining, reset |-> base.reset,
             retryAfter |-> CeilDiv(entry.resetTime - t, MsPerSecond)]

CheckLimitOp_DeniedNotCounted(st, identifier, configName, t) ==
    LET cfg == Configs[configName]
        inc == StoreIncrement(st, KeyOf(identifier, configName), cfg.windowMs, t)
        result == LimitResult(inc.entry, cfg, t)
    IN [result |-> result, store |-> IF result.allowed THEN inc.store ELSE st]

\* RateLimiter.checkLimit
CheckLimitOp(st, identifier, configName, t) ==
    LET cfg == Configs[configName]
        inc == StoreIncrement(st, KeyOf(identifier, configName), cfg.windowMs, t)
    IN [result |-> LimitResult(inc.entry, cfg, t), store |-> inc.store]

\* The store after k more checkLimit calls of one identity and policy at time t
\* (k calls are split in two halves; the test on DOMAIN half has the first half
\* evaluated before the second is begun, and a store after a call is never empty)
RECURSIVE AfterCalls(_, _, _, _, _)
AfterCalls(st, identifier, configName, t, k) ==
    IF k = 0 THEN st
    ELSE IF k = 1 THEN CheckLimitOp(st, identifier, configName, t).store
    ELSE LET half == AfterCalls(st, identifier, configName, t, k \div 2)
         IN IF DOMAIN half = {} THEN half
            ELSE AfterCalls(half, identifier, configName, t, k - (k \div 2))

-----------------------------------------------------------------------------
(* Texts.  A text is the string  body . filler^pad : body is a sequence of   *)
(* characters (one token per Hangul syllable, Latin letter, space or         *)
(* punctuation mark, the syllables written in romanised form) and pad is the *)
(* number of further characters that occur in none of the phrases searched   *)
(* for.  String.length counts one per token.                                 *)

EmptyText == [body |-> <<>>, pad |-> 0]

TextLength(text) == Len(text.body) + text.pad

\* String.prototype.includes on the body: phrase occurs as a contiguous run
SeqIncludes(body, phrase) ==
    \E i \in 0..(Len(body) - Len(phrase)) :
        \A j \in 1..Len(phrase) : body[i + j] = phrase[j]

Includes(text, phrase) == SeqIncludes(text.body, phrase)

\* String.prototype.toLowerCase: only the Latin capitals change.
LowerChar(c) ==
    CASE c = "S" -> "s"
      [] c = "N" -> "n"
      [] OTHER -> c

ToLowerCase(s) == [i \in 1..Len(s) |-> LowerChar(s[i])]

\* The literals of validatePrompt
RolePhrase == <<"dang", "sin", "eun">>
RoleNouns == << <<"jeon", "mun", "ga">>, <<"jak", "seong", "ja">> >>

metaInstructions ==
    << <<"peu", "rom", "peu", "teu", "reul", " ", "saeng", "seong">>,
       <<"peu", "rom", "peu", "teu", "reul", " ", "chul", "ryeok">>,
       <<"wi", " ", "mo", "deun", " ", "hang", "mok", "eul", " ", "ban", "yeong", "han">>,
       <<"jak", "seong", "yong", " ", "peu", "rom", "peu", "teu", "reul">>,
       <<"chul", "ryeok", "ha", "sip", "si", "o">>,
       <<"saeng", "seong", "hae", "ju", "se", "yo">>,
       <<"man", "deul", "eo", "ju", "se", "yo">>,
       <<"peu", "rom", "peu", "teu", " ", "saeng", "seong", " ", "gwa", "jeong">> >>

genericPhrases ==
    << <<"il", "ban", "jeok", "in">>,
       <<"bo", "pyeon", "jeok", "in">>,
       <<"pyo", "jun", "jeok", "in">>,
       <<"pyeong", "beom", "han">> >>

MinSpecificLength == 500

StructureWords ==
    << <<"gu", "jo">>, <<"gu", "seong">>, <<"sek", "syeon">>, <<"hyeong", "sik">> >>

GuidelineWords ==
    << <<"jak", "seong", " ", "won", "chik">>,
       <<"ji", "chim">>,
       <<"yo", "gu", "sa", "hang">>,
       <<"ju", "ui", "sa", "hang">> >>

ActionVerbs ==
    << <<"jak", "seong", "hae">>, <<"man", "deul", "eo">>, <<"saeng", "seong", "hae">> >>

Formats == {"press_release", "speech", "sns", "inquiry", "report", "media_scraping"}

\* PromptGenerator.getFormatDisplayName
getFormatDisplayName(format) ==
    CASE format = "press_release"  -> <<"bo", "do", "ja", "ryo">>
      [] format = "speech"         -> <<"yeon", "seol", "mun">>
      [] format = "sns"            -> <<"S", "N", "S", " ", "ge", "si", "geul">>
      [] format = "inquiry"        -> <<"ja", "ryo", "je", "chul">>
      [] format = "report"         -> <<"bo", "go", "seo">>
      [] format = "media_scraping" -> <<"i", "syu", " ", "bun", "seok">>

IncludesAny(text, phrases) == \E i \in 1..Len(phrases) : Includes(text, phrases[i])

\* The names of the seven scorecard items, in the order they are pushed
CheckNames ==
    <<"role_definition", "no_meta_instruction", "topic_specific", "format_named",
      "structure_guideline", "writing_guideline", "actionable_instruction">>

\* The conditions of checks 1..7
Check1(text) == Includes(text, RolePhrase) /\ IncludesAny(text, RoleNouns)

foundMetaInstructions(text) ==
    SelectSeq(metaInstructions,
              LAMBDA meta : SeqIncludes(ToLowerCase(text.body), ToLowerCase(meta)))

Check2(text) == Len(foundMetaInstructions(text)) = 0

Check3(text) == ~IncludesAny(text, genericPhrases) /\ TextLength(text) > MinSpecificLength

Check4(text, format) == Includes(text, getFormatDisplayName(format))

Check5(text) == IncludesAny(text, StructureWords)

Check6(text) == IncludesAny(text, GuidelineWords)

Check7_FirstVerbOnly(text) == Includes(text, ActionVerbs[1])

Check7(text) == IncludesAny(text, ActionVerbs)

CheckOutcomes(text, format) ==
    <<Check1(text), Check2(text), Check3(text), Check4(text, format),
      Check5(text), Check6(text), Check7(text)>>

ErrorChecks_WithTopic == {1, 2, 3}

\* Which failing checks push to errors (the others push to warnings)
ErrorChecks == {1, 2}

TotalChecks == 7
InvalidScoreCap == 60

\* Math.round(x / y * 100) for 0 <= x <= y: round half up
RoundPercent(x, y) == (200 * x + y) \div (2 * y)

Min(a, b) == IF a <= b THEN a ELSE b

OverallScore_NoCap(isValid, score) == score

\* overallScore = isValid ? score : Math.min(score, 60)
OverallScore(isValid, score) == IF isValid THEN score ELSE Min(score, InvalidScoreCap)

\* PromptGenerator.validatePrompt
validatePrompt(text, format) ==
    LET ok == CheckOutcomes(text, format)
        idx == [i \in 1..TotalChecks |-> i]
        passed == SelectSeq(idx, LAMBDA i : ok[i])
        failed == SelectSeq(idx, LAMBDA i : ~ok[i])
        errors == SelectSeq(failed, LAMBDA i : i \in ErrorChecks)
        warnings == SelectSeq(failed, LAMBDA i : i \notin ErrorChecks)
        score == RoundPercent(Len(passed), TotalChecks)
        isValid == Len(errors) = 0
    IN [validation |-> [isValid |-> isValid,
                        warnings |-> [i \in 1..Len(warnings) |-> CheckNames[warnings[i]]],
                        errors |-> [i \in 1..Len(errors) |-> CheckNames[errors[i]]]],
        checklist |-> [passed |-> [i \in 1..Len(passed) |-> CheckNames[passed[i]]],
                       failed |-> [i \in 1..Len(failed) |-> CheckNames[failed[i]]],
                       score |-> score,
                       totalChecks |-> TotalChecks,
                       passedChecks |-> Len(passed)],
        overallScore |-> OverallScore(isValid, score)]

-----------------------------------------------------------------------------
(* The rate limiter driven directly: checkLimit calls and the clock *)

\* Number of calls made at time 0 before the exploration starts, per policy:
\* none, or all but one of the policy's allowance.
PriorCalls(configName) == {0, Configs[configName].maxRequests - 1}

TickSteps == {1, BurstWindowMs, DefaultWindowMs}

InitRL ==
    /\ clock = 0
    /\ ticks = 0
    /\ ncalls = 0
    /\ last = NoCall
    /\ vtext = EmptyText /\ vmade = NoCall /\ vformat = "press_release" /\ vres = NoCall
    /\ PostIdle
    /\ LibIdle
    /\ \E kd \in PriorCalls("default"), ks \in PriorCalls("strict"), kb \in PriorCalls("burst") :
          LET prior == [default |-> kd, strict |-> ks, burst |-> kb]
              loaded == {c \in ConfigNames : prior[c] > 0}
          IN /\ store = AfterCalls(AfterCalls(AfterCalls(EmptyStore,
                            Ip1, "default", 0, kd), Ip1, "strict", 0, ks), Ip1, "burst", 0, kb)
             /\ win = [k \in {KeyOf(Ip1, c) : c \in loaded} |->
                        LET c == CHOOSE c \in loaded : KeyOf(Ip1, c) = k
                        IN [n |-> prior[c], reset |-> Configs[c].windowMs]]

\* One call rateLimiter.checkLimit(identifier, configName) at the current time
CheckLimit(identifier, configName) ==
    /\ ncalls < MaxCalls
    /\ LET key == KeyOf(identifier, configName)
           cfg == Configs[configName]
           r == CheckLimitOp(store, identifier, configName, clock)
           opens == key \notin DOMAIN win \/ clock > win[key].reset
           w == IF opens THEN [n |-> 1, reset |-> clock + cfg.windowMs]
                         ELSE [win[key] EXCEPT !.n = @ + 1]
       IN /\ store' = r.store
          /\ win' = MapSet(win, key, w)
          /\ last' = [kind |-> "checkLimit", key |-> key, config |-> configName,
                      now |-> clock, n |-> w.n, opens |-> opens,
                      oldCount |-> IF key \in DOMAIN store THEN store[key].count ELSE 0,
                      result |-> r.result]
    /\ ncalls' = ncalls + 1
    /\ UNCHANGED <<clock, ticks>>
    /\ UNCHANGED valVars
    /\ UNCHANGED libVars
    /\ UNCHANGED postVars

\* Time passes
Tick(d) ==
    /\ ticks < MaxTicks
    /\ pc \in {"idle", "done"}
    /\ clock' = clock + d
    /\ ticks' = ticks + 1
    /\ UNCHANGED <<store, win, last, ncalls>>
    /\ UNCHANGED valVars
    /\ UNCHANGED libVars
    /\ UNCHANGED postVars

CheckLimitAny == \E c \in ConfigNames : CheckLimit(Ip1, c)
TickAny == \E d \in TickSteps : Tick(d)

NextRL == CheckLimitAny \/ TickAny

SpecRL == InitRL /\ [][NextRL]_vars

-----------------------------------------------------------------------------
(* The validator driven directly: texts assembled from the phrases the      *)
(* checks look for, each part closed by a full stop, then padded.           *)

Stop == <<".">>

RoleOptions == {"none", "phrase_only", "noun_only", "phrase_and_noun"}
LengthOptions == {"short", "at_threshold", "long"}
FormatNameOptions == {"none", "same", "other"}

\* The phrase of a list that variant v selects
Pick(list, v) == list[((v - 1) % Len(list)) + 1]

Variants == 1..Len(metaInstructions)

OtherFormat(format) ==
    CASE format = "press_release"  -> "speech"
      [] format = "speech"         -> "sns"
      [] format = "sns"            -> "inquiry"
      [] format = "inquiry"        -> "report"
      [] format = "report"         -> "media_scraping"
      [] format = "media_scraping" -> "press_release"

Part(present, phrase) == IF present THEN phrase \o Stop ELSE <<>>

TextBody(m, format) ==
       Part(m.role \in {"phrase_only", "phrase_and_noun"}, RolePhrase)
    \o Part(m.role \in {"noun_only", "phrase_and_noun"}, Pick(RoleNouns, m.variant))
    \o Part(m.leak, Pick(metaInstructions, m.variant))
    \o Part(m.generic, Pick(genericPhrases, m.variant))
    \o Part(m.formatName = "same", getFormatDisplayName(format))
    \o Part(m.formatName = "other", getFormatDisplayName(OtherFormat(format)))
    \o Part(m.structure, Pick(StructureWords, m.variant))
    \o Part(m.guideline, Pick(GuidelineWords, m.variant))
    \o Part(m.verb, Pick(ActionVerbs, m.variant))

BuildText(m, format) ==
    LET body == TextBody(m, format)
    IN [body |-> body,
        pad |-> CASE m.length = "short" -> 0
                  [] m.length = "at_threshold" -> MinSpecificLength - Len(body)
                  [] m.length = "long" -> MinSpecificLength + 1 - Len(body)]

Makings ==
    [role : RoleOptions, variant : Variants, leak : BOOLEAN, generic : BOOLEAN,
     length : LengthOptions, formatName : FormatNameOptions,
     structure : BOOLEAN, guideline : BOOLEAN, verb : BOOLEAN]

\* Role phrase and noun, format name, structure word, guideline word, closing
\* verb, 501 characters, no leak phrase, no generic phrase
PerfectMaking ==
    [role |-> "phrase_and_noun", variant |-> 1, leak |-> FALSE, generic |-> FALSE,
     length |-> "long", formatName |-> "same",
     structure |-> TRUE, guideline |-> TRUE, verb |-> TRUE]

InitValidate ==
    /\ clock = 0 /\ ticks = 0 /\ ncalls = 0 /\ last = NoCall
    /\ store = EmptyStore /\ win = EmptyStore
    /\ PostIdle
    /\ LibIdle
    /\ vres = NoCall
    /\ vformat \in Formats
    /\ vmade \in Makings
    /\ vtext = BuildText(vmade, vformat)

\* One call PromptGenerator.validatePrompt(vtext, vformat, level)
ValidateText ==
    /\ vres = NoCall
    /\ vres' = validatePrompt(vtext, vformat)
    /\ UNCHANGED <<vtext, vmade, vformat>>
    /\ UNCHANGED rlVars
    /\ UNCHANGED postVars
    /\ UNCHANGED libVars

NextValidate == ValidateText

SpecValidate == InitValidate /\ [][NextValidate]_vars

-----------------------------------------------------------------------------
(* RateLimiter.checkMultipleLimits and createRateLimitHeaders *)

\* The for loop: checkLimit for each listed (identifier, configName), in order
RECURSIVE CheckEach(_, _, _, _, _)
CheckEach(st, identifiers, t, i, results) ==
    IF i > Len(identifiers) THEN [results |-> results, store |-> st]
    ELSE LET r == CheckLimitOp(st, identifiers[i].identifier, identifiers[i].configName, t)
         IN CheckEach(r.store, identifiers, t, i + 1, Append(results, r.result))

\* results.reduce((prev, current) => current.remaining < prev.remaining ? current : prev)
RECURSIVE ReduceLeastRemaining(_, _, _)
ReduceLeastRemaining(results, i, prev) ==
    IF i > Len(results) THEN prev
    ELSE ReduceLeastRemaining(results, i + 1,
            IF results[i].remaining < prev.remaining THEN results[i] ELSE prev)

MostRestrictive(results) == ReduceLeastRemaining(results, 2, results[1])

EveryAllowed_Some(results) == \E i \in 1..Len(results) : results[i].allowed

\* results.every(result => result.allowed)
EveryAllowed(results) == \A i \in 1..Len(results) : results[i].allowed

\* RateLimiter.checkMultipleLimits
CheckMultipleLimitsOp(st, identifiers, t) ==
    LET each == CheckEach(st, identifiers, t, 1, <<>>)
    IN [result |-> [allowed |-> EveryAllowed(each.results),
                    results |-> each.results,
                    mostRestrictive |-> MostRestrictive(each.results)],
        store |-> each.store]

\* Number.prototype.toString: the decimal digits, with a sign when negative
Digit(d) == <<"0", "1", "2", "3", "4", "5", "6", "7", "8", "9">>[d + 1]

RECURSIVE Digits(_)
Digits(n) == IF n < 10 THEN <<Digit(n)>> ELSE Append(Digits(n \div 10), Digit(n % 10))

NumberToString(n) == IF n < 0 THEN <<"-">> \o Digits(-n) ELSE Digits(n)

\* if (result.retryAfter): undefined and 0 are falsy
HasRetryAfter(result) == "retryAfter" \in DOMAIN result /\ result.retryAfter # 0

\* createRateLimitHeaders
createRateLimitHeaders(result) ==
    LET headers == [h \in {"X-RateLimit-Limit", "X-RateLimit-Remaining", "X-RateLimit-Reset"} |->
                      CASE h = "X-RateLimit-Limit" -> NumberToString(result.limit)
                        [] h = "X-RateLimit-Remaining" -> NumberToString(result.remaining)
                        [] h = "X-RateLimit-Reset" -> NumberToString(result.reset)]
    IN IF HasRetryAfter(result)
       THEN ("Retry-After" :> NumberToString(result.retryAfter)) @@ headers
       ELSE headers

-----------------------------------------------------------------------------
(* TokenGuard.checkTokenLimits and the pre-dispatch check of LLMClient *)

LLMMaxInputTokens == 700

GuardEstimateTokens_RoundedDown(chars) == ((2 * chars.korean) \div 5) + (chars.other \div 4)

\* TokenGuard.estimateTokens for a text of k Hangul and e other characters:
\* Math.ceil(k / 2.5) + Math.ceil(e / 4)
GuardEstimateTokens(chars) == CeilDiv(2 * chars.korean, 5) + CeilDiv(chars.other, 4)

\* LLMClient.estimateTokens: Math.ceil(text.length / 2.5)
LLMEstimateTokens(chars) == CeilDiv(2 * (chars.korean + chars.other), 5)

TokenAllowed_Flipped(promptTokens, maxPromptTokens) == promptTokens >= maxPromptTokens

\* const allowed = promptTokens <= maxPromptTokens
TokenAllowed(promptTokens, maxPromptTokens) == promptTokens <= maxPromptTokens

\* TokenGuard.checkTokenLimits under the ceilings limits:
\* reservedTokens = Math.floor(limit * 0.2) for an integer limit >= 0
checkTokenLimitsUnder(limits, chars, level) ==
    LET promptTokens == GuardEstimateTokens(chars)
        limit == limits[level]
        reservedTokens == (limit * 2) \div 10
        maxPromptTokens == limit - reservedTokens
    IN [allowed |-> TokenAllowed(promptTokens, maxPromptTokens),
        promptTokens |-> promptTokens,
        limit |-> limit,
        remaining |-> Max(0, maxPromptTokens - promptTokens)]

\* TokenGuard.checkTokenLimits of the handler's guard, which has the default
\* ceilings
checkTokenLimits(chars, level) == checkTokenLimitsUnder(DefaultLimits, chars, level)

-----------------------------------------------------------------------------
(* The token guard alone: ceilings from the environment, then calls *)

\* Largest amount added to the three default ceilings
MaxCeilingOffset == 4

\* Payloads: Hangul characters and other characters
TokenTexts ==
    {[korean |-> k, other |-> o] : k \in {0, 1, 125, 600}, o \in {0, 1, 4, 8, 12, 16, 20, 1000}}

InitToken ==
    /\ clock = 0 /\ ticks = 0 /\ ncalls = 0 /\ last = NoCall /\ win = EmptyStore
    /\ store = EmptyStore
    /\ vtext = EmptyText /\ vmade = NoCall /\ vformat = "press_release" /\ vres = NoCall
    /\ PostIdle
    /\ \E d \in 0..MaxCeilingOffset :
          tokLimits = [level \in Levels |-> TokenLimit(level) + d]
    /\ tokPrev = NoCall /\ tokLast = NoCall
    /\ ModeIdle /\ MdIdle /\ RpIdle /\ ExtIdle

\* One call tokenGuard.checkTokenLimits(systemPrompt, userPrompt, format, level)
CheckTokenLimits(chars, level) ==
    /\ tokPrev' = tokLast
    /\ tokLast' = [chars |-> chars, level |-> level,
                   result |-> checkTokenLimitsUnder(tokLimits, chars, level)]
    /\ UNCHANGED tokLimits
    /\ UNCHANGED rlVars
    /\ UNCHANGED valVars
    /\ UNCHANGED postVars
    /\ UNCHANGED <<modeVars, mdVars, rpVars, extVars>>

NextToken == \E chars \in TokenTexts, level \in Levels : CheckTokenLimits(chars, level)

SpecToken == InitToken /\ [][NextToken]_vars

\* LLMClient.validateTokenLimits: TRUE when it throws
LLMInputTooLarge(chars) == LLMEstimateTokens(chars) > LLMMaxInputTokens

-----------------------------------------------------------------------------
(* POST /api/prompt *)

NoSession == <<>>

Ips == {Ip1}
Sessions == {NoSession, Session1}

\* rateLimitChecks: the session entry is pushed only for a truthy sessionId
RateLimitChecks(ip, sessionId) ==
    LET base == << [identifier |-> ip, configName |-> "default"],
                   [identifier |-> ip, configName |-> "burst"] >>
    IN IF sessionId # NoSession
       THEN Append(base, [identifier |-> sessionId, configName |-> "default"])
       ELSE base

\* The store after k more requests of ip without a session at time t (every
\* request runs checkMultipleLimits first, whatever becomes of it later)
RECURSIVE AfterRequests(_, _, _, _)
AfterRequests(st, ip, t, k) ==
    IF k = 0 THEN st
    ELSE IF k = 1 THEN CheckMultipleLimitsOp(st, RateLimitChecks(ip, NoSession), t).store
    ELSE LET half == AfterRequests(st, ip, t, k \div 2)
         IN IF DOMAIN half = {} THEN half
            ELSE AfterRequests(half, ip, t, k - (k \div 2))

\* Sizes of the assembled payload (Hangul characters, other characters)
PayloadSamples ==
    { [korean |-> 125, other |-> 0],      \* 50 tokens
      [korean |-> 600, other |-> 0],      \* 240 tokens
      [korean |-> 0, other |-> 1000],     \* 250 tokens
      [korean |-> 1750, other |-> 0],     \* 700 tokens by either estimate
      [korean |-> 0, other |-> 2880] }    \* 720 tokens for the guard, 1152 for the client

\* What openai.chat.completions.create, raced against the timeout, comes to
CallOutcomes == {"content", "empty_content", "no_choices", "timeout", "status_429", "api_error"}

LeakMaking == [PerfectMaking EXCEPT !.leak = TRUE]
SoftMaking == [PerfectMaking EXCEPT !.structure = FALSE, !.guideline = FALSE]
BareMaking ==
    [role |-> "none", variant |-> 1, leak |-> FALSE, generic |-> FALSE,
     length |-> "short", formatName |-> "none",
     structure |-> FALSE, guideline |-> FALSE, verb |-> TRUE]

\* Non-empty texts the model may return
ModelTexts ==
    {BuildText(m, "press_release") : m \in {PerfectMaking, LeakMaking, SoftMaking, BareMaking}}

\* The code thrown by generateContent for a call outcome: its catch rethrows
\* LLMTimeoutError, maps APIError, and wraps everything else.
LLMErrorCode(outcome) ==
    CASE outcome = "timeout" -> "TIMEOUT"
      [] outcome = "status_429" -> "RATE_LIMIT"
      [] outcome = "api_error" -> "OPENAI_500"
      [] outcome = "empty_content" -> "REQUEST_FAILED"
      [] outcome = "no_choices" -> "REQUEST_FAILED"
      [] outcome = "input_too_large" -> "REQUEST_FAILED"

PassScoreThreshold == 80

ErrorResponse(status, code, headers) ==
    [kind |-> "error", success |-> FALSE, status |-> status, code |-> code, headers |-> headers]

SuccessResponse_BlockInvalid(content, vr, headers) ==
    IF vr # NoCall /\ ~vr.validation.isValid
    THEN ErrorResponse(422, "VALIDATION_FAILED", <<>>)
    ELSE [kind |-> "success", success |-> TRUE, status |-> 200, prompt |-> content,
          validation |-> [passed |-> TRUE, score |-> 100, checklist |-> <<>>],
          headers |-> headers]

\* Step 9: the response for a generated prompt; vr = NoCall when the validator
\* did not run
SuccessResponse(content, vr, headers) ==
    [kind |-> "success", success |-> TRUE, status |-> 200,
     prompt |-> content,
     validation |->
        IF vr # NoCall
        THEN [passed |-> vr.validation.isValid /\ vr.checklist.score >= PassScoreThreshold,
              score |-> vr.overallScore,
              checklist |-> vr.checklist.passed,
              warnings |-> vr.validation.warnings \o
                           (IF vr.checklist.score < PassScoreThreshold
                            THEN <<"checklist_items_failed">> ELSE <<>>),
              suggestions |-> IF Len(vr.validation.errors) > 0
                              THEN <<"review_and_revise">> ELSE <<>>]
        ELSE [passed |-> TRUE, score |-> 100, checklist |-> <<>>],
     headers |-> headers]

TokenGatePasses_Always(tokenResult) == TRUE

\* if (!tokenResult.allowed) return 400
TokenGatePasses(tokenResult) == tokenResult.allowed

PcAfterFailedCall_Retry == "llm"

\* A rejection of generateContent reaches the catch of POST, which responds
PcAfterFailedCall == "done"

-----------------------------------------------------------------------------
(* The handler, one request at a time *)

\* Requests of Ip1 without a session handled at time 0 before the exploration
PriorRequests == {0, BurstMaxRequests - 1, DefaultMaxRequests - 1}

Init ==
    /\ LibIdle
    /\ clock = 0 /\ ticks = 0 /\ ncalls = 0 /\ last = NoCall /\ win = EmptyStore
    /\ vtext = EmptyText /\ vmade = NoCall /\ vformat = "press_release" /\ vres = NoCall
    /\ apiKey \in BOOLEAN
    /\ pc = "idle" /\ nreq = 0
    /\ rateLimitResult = NoCall /\ gates = <<>> /\ payload = NoCall
    /\ llmReached = FALSE /\ callLog = <<>> /\ llmResponse = NoCall
    /\ validationResults = NoCall /\ resp = NoCall /\ arrival = NoCall
    /\ \E k \in PriorRequests : store = AfterRequests(EmptyStore, Ip1, 0, IF apiKey THEN k ELSE 0)

Gate(name, ok) == [gate |-> name, ok |-> ok]

\* A request arrives while OPENAI_API_KEY is not set: getLLMClient throws
\* before the try block is entered.
Post_InitFails ==
    /\ pc \in {"idle", "done"}
    /\ nreq < MaxReq
    /\ ~apiKey
    /\ pc' = "done"
    /\ nreq' = nreq + 1
    /\ resp' = [kind |-> "uncaught"]
    /\ rateLimitResult' = NoCall /\ gates' = <<>> /\ payload' = NoCall
    /\ llmReached' = FALSE /\ callLog' = <<>> /\ llmResponse' = NoCall
    /\ validationResults' = NoCall
    /\ arrival' = [store |-> store, now |-> clock]
    /\ UNCHANGED <<apiKey>>
    /\ UNCHANGED rlVars
    /\ UNCHANGED valVars
    /\ UNCHANGED libVars

\* A request arrives; step 1, the rate limiting check
Post_RateLimit(ip, sessionId) ==
    /\ pc \in {"idle", "done"}
    /\ nreq < MaxReq
    /\ apiKey
    /\ nreq' = nreq + 1
    /\ LET c == CheckMultipleLimitsOp(store, RateLimitChecks(ip, sessionId), clock)
       IN /\ store' = c.store
          /\ rateLimitResult' = c.result
          /\ gates' = <<Gate("rate_limit", c.result.allowed)>>
          /\ IF ~c.result.allowed
             THEN /\ resp' = ErrorResponse(429, "RATE_LIMIT_EXCEEDED",
                                           createRateLimitHeaders(c.result.mostRestrictive))
                  /\ pc' = "done"
             ELSE /\ resp' = NoCall
                  /\ pc' = "parse"
    /\ payload' = NoCall /\ llmReached' = FALSE /\ callLog' = <<>> /\ llmResponse' = NoCall
    /\ validationResults' = NoCall
    /\ arrival' = [store |-> store, now |-> clock, checks |-> RateLimitChecks(ip, sessionId)]
    /\ UNCHANGED <<apiKey, clock, ticks, win, last, ncalls>>
    /\ UNCHANGED valVars
    /\ UNCHANGED libVars

\* Step 2: request.json() and UserInputSchema.parse
Post_ParseInput(valid) ==
    /\ pc = "parse"
    /\ gates' = Append(gates, Gate("input", valid))
    /\ IF valid
       THEN pc' = "rulepack" /\ UNCHANGED resp
       ELSE pc' = "done" /\ resp' = ErrorResponse(400, "INVALID_INPUT", <<>>)
    /\ UNCHANGED <<apiKey, arrival, nreq, rateLimitResult, payload, llmReached, callLog, llmResponse,
                   validationResults>>
    /\ UNCHANGED rlVars
    /\ UNCHANGED valVars
    /\ UNCHANGED libVars

\* Step 3: getRulepack, null when the rule-pack cannot be loaded
Post_LoadRulepack(found) ==
    /\ pc = "rulepack"
    /\ gates' = Append(gates, Gate("rulepack", found))
    /\ IF found
       THEN pc' = "token" /\ UNCHANGED resp
       ELSE pc' = "done" /\ resp' = ErrorResponse(400, "RULEPACK_NOT_FOUND", <<>>)
    /\ UNCHANGED <<apiKey, arrival, nreq, rateLimitResult, payload, llmReached, callLog, llmResponse,
                   validationResults>>
    /\ UNCHANGED rlVars
    /\ UNCHANGED valVars
    /\ UNCHANGED libVars

\* Steps 4 and 5: the prompts are assembled and checkTokenLimits decides
Post_TokenCheck(chars, level) ==
    /\ pc = "token"
    /\ LET tokenResult == checkTokenLimits(chars, level)
       IN /\ gates' = Append(gates, Gate("token", tokenResult.allowed))
          /\ IF TokenGatePasses(tokenResult)
             THEN pc' = "llm" /\ payload' = chars /\ UNCHANGED resp
             ELSE /\ pc' = "done" /\ payload' = NoCall
                  /\ resp' = ErrorResponse(400, "TOKEN_LIMIT_EXCEEDED", <<>>)
    /\ UNCHANGED <<apiKey, arrival, nreq, rateLimitResult, llmReached, callLog, llmResponse,
                   validationResults>>
    /\ UNCHANGED rlVars
    /\ UNCHANGED valVars
    /\ UNCHANGED libVars

\* The rejection of generateContent with the given code, caught by POST.  The
\* response does not carry the code; cause records it beside the response.
FailedCall(code) ==
    /\ pc' = PcAfterFailedCall
    /\ resp' = IF PcAfterFailedCall = "done"
               THEN ErrorResponse(500, "INTERNAL_ERROR", <<>>) @@ [cause |-> code]
               ELSE resp
    /\ UNCHANGED llmResponse

\* Step 6: llmClient.generateContent, rejected before dispatch
Post_GenerateRejected ==
    /\ pc = "llm"
    /\ LLMInputTooLarge(payload)
    /\ llmReached' = TRUE
    /\ FailedCall(LLMErrorCode("input_too_large"))
    /\ payload' = NoCall
    /\ UNCHANGED callLog
    /\ UNCHANGED <<apiKey, arrival, nreq, rateLimitResult, gates, validationResults>>
    /\ UNCHANGED rlVars
    /\ UNCHANGED valVars
    /\ UNCHANGED libVars

\* Step 6: llmClient.generateContent, with one call to the external model
Post_GenerateContent(outcome, text) ==
    /\ pc = "llm"
    /\ ~LLMInputTooLarge(payload)
    /\ llmReached' = TRUE
    /\ callLog' = Append(callLog, outcome)
    /\ IF outcome = "content"
       THEN /\ llmResponse' = [content |-> text]
            /\ pc' = "validate"
            /\ UNCHANGED resp
       ELSE FailedCall(LLMErrorCode(outcome))
    /\ payload' = IF pc' = "llm" THEN payload ELSE NoCall
    /\ UNCHANGED <<apiKey, arrival, nreq, rateLimitResult, gates, validationResults>>
    /\ UNCHANGED rlVars
    /\ UNCHANGED valVars
    /\ UNCHANGED libVars

Post_Respond_AlwaysValidates(format, includeWarnings) ==
    /\ pc = "validate"
    /\ validationResults' = validatePrompt(llmResponse.content, format)
    /\ resp' = SuccessResponse(llmResponse.content, validationResults',
                               createRateLimitHeaders(rateLimitResult.mostRestrictive))
    /\ pc' = "done"
    /\ UNCHANGED <<apiKey, arrival, nreq, rateLimitResult, gates, payload, llmReached, callLog,
                   llmResponse>>
    /\ UNCHANGED rlVars
    /\ UNCHANGED valVars
    /\ UNCHANGED libVars

\* Steps 7 to 9: validatePrompt unless options.includeWarnings is false,
\* logActualUsage, and the response
Post_Respond(format, includeWarnings) ==
    /\ pc = "validate"
    /\ LET vr == IF includeWarnings
                 THEN validatePrompt(llmResponse.content, format)
                 ELSE NoCall
       IN /\ validationResults' = vr
          /\ resp' = SuccessResponse(llmResponse.content, vr,
                                     createRateLimitHeaders(rateLimitResult.mostRestrictive))
    /\ pc' = "done"
    /\ UNCHANGED <<apiKey, arrival, nreq, rateLimitResult, gates, payload, llmReached, callLog,
                   llmResponse>>
    /\ UNCHANGED rlVars
    /\ UNCHANGED valVars
    /\ UNCHANGED libVars

\* Clock advances between requests: by a millisecond or by the burst window
RequestGaps == {1, BurstWindowMs}
GapAny == \E d \in RequestGaps : Tick(d)

RateLimitAny == \E ip \in Ips, sessionId \in Sessions : Post_RateLimit(ip, sessionId)
ParseInputAny == \E valid \in BOOLEAN : Post_ParseInput(valid)
LoadRulepackAny == \E found \in BOOLEAN : Post_LoadRulepack(found)
TokenCheckAny == \E chars \in PayloadSamples, level \in Levels : Post_TokenCheck(chars, level)
GenerateContentAny ==
    \E outcome \in CallOutcomes :
        \E text \in (IF outcome = "content" THEN ModelTexts ELSE {EmptyText}) :
            Post_GenerateContent(outcome, text)
RespondAny == \E format \in Formats, includeWarnings \in BOOLEAN : Post_Respond(format, includeWarnings)

Next ==
    \/ Post_InitFails
    \/ RateLimitAny
    \/ ParseInputAny
    \/ LoadRulepackAny
    \/ TokenCheckAny
    \/ Post_GenerateRejected
    \/ GenerateContentAny
    \/ RespondAny
    \/ GapAny

Spec == Init /\ [][Next]_vars

-----------------------------------------------------------------------------
\* C1: fixed-window rate limiting.  With N = maxRequests and W = windowMs of
\* the policy, the first N checkLimit calls of one identity in a window are
\* allowed, call N+1 of the window is denied with remaining = 0, and the first
\* call made after the window elapsed (now > resetTime) is allowed and leaves a
\* fresh entry with count = 1 and resetTime = now + W.
C1_FixedWindow ==
    last.kind = "checkLimit" =>
        LET cfg == Configs[last.config]
            N == cfg.maxRequests
            r == last.result
        IN /\ (last.n <= N => r.allowed)
           /\ (last.n = N + 1 => ~r.allowed /\ r.remaining = 0)
           /\ (last.n > N => ~r.allowed)
           /\ r.remaining = Max(0, N - last.n)
           /\ (last.opens =>
                 /\ r.allowed
                 /\ last.n = 1
                 /\ store[last.key].count = 1
                 /\ store[last.key].resetTime = last.now + cfg.windowMs
                 /\ r.reset = last.now + cfg.windowMs)
           /\ (~r.allowed => r.retryAfter = CeilDiv(r.reset - last.now, MsPerSecond))

\* A call that opens a new window after the previous window of the same key
\* ran over its allowance: the old count is not carried over.
C1_Witness ==
    /\ last.kind = "checkLimit"
    /\ last.opens
    /\ last.oldCount > Configs[last.config].maxRequests
    /\ last.result.allowed
    /\ store[last.key].count = 1

-----------------------------------------------------------------------------
\* The request went past the rate limiting check of POST
Admitted ==
    \/ pc \in {"parse", "rulepack", "token", "llm", "validate"}
    \/ pc = "done" /\ resp.kind = "success"
    \/ pc = "done" /\ resp.kind = "error" /\ resp.status # 429

Rejected429 == pc = "done" /\ resp.kind = "error" /\ resp.status = 429

\* C2: checkMultipleLimits returns allowed = TRUE exactly when every policy
\* result is allowed, its mostRestrictive is one of the results and has a
\* remaining value no greater than that of any result, and POST admits the
\* request only when the composite allowed is TRUE.
C2_Composite ==
    rateLimitResult # NoCall =>
        LET r == rateLimitResult
            n == Len(r.results)
        IN /\ r.allowed <=> (\A i \in 1..n : r.results[i].allowed)
           /\ \E i \in 1..n : r.mostRestrictive = r.results[i]
           /\ \A i \in 1..n : r.mostRestrictive.remaining <= r.results[i].remaining
           /\ (Admitted => \A i \in 1..n : r.results[i].allowed)
           /\ (Rejected429 <=> (pc = "done" /\ \E i \in 1..n : ~r.results[i].allowed))

\* A request with a session rejected because one policy denies while another
\* still allows.
C2_Witness ==
    /\ Rejected429
    /\ Len(rateLimitResult.results) = 3
    /\ ~rateLimitResult.allowed
    /\ \E i \in 1..3 : rateLimitResult.results[i].allowed
    /\ \E i \in 1..3 : ~rateLimitResult.results[i].allowed

\* C3: whenever POST rejects a request with status 429, the headers of the
\* response include Retry-After, holding the seconds until the window of a
\* denying policy resets.
C3_RetryAfterOn429 ==
    Rejected429 =>
        /\ "Retry-After" \in DOMAIN resp.headers
        /\ \E i \in 1..Len(rateLimitResult.results) :
              /\ ~rateLimitResult.results[i].allowed
              /\ resp.headers["Retry-After"] =
                    NumberToString(rateLimitResult.results[i].retryAfter)

AllGatesPassed ==
    gates = <<Gate("rate_limit", TRUE), Gate("input", TRUE),
              Gate("rulepack", TRUE), Gate("token", TRUE)>>

EarlyErrorCodes ==
    {"RATE_LIMIT_EXCEEDED", "INVALID_INPUT", "RULEPACK_NOT_FOUND", "TOKEN_LIMIT_EXCEEDED"}

\* C4: llmClient.generateContent is entered, and the external model called,
\* only after the rate limit check allowed, the input parsed, a rule-pack was
\* returned and checkTokenLimits allowed, in that order; a request answered
\* with one of the four early errors made no call.
C4_GatesBeforeModel ==
    /\ (llmReached \/ callLog # <<>> \/ llmResponse # NoCall) => AllGatesPassed
    /\ (pc \in {"llm", "validate"}) => AllGatesPassed
    /\ (pc = "done" /\ resp.kind = "error" /\ resp.code \in EarlyErrorCodes) =>
           (~llmReached /\ callLog = <<>> /\ \E i \in 1..Len(gates) : ~gates[i].ok)

\* The token pre-check rejects a request that passed the three gates before
\* it: no call is made.
C4_Witness ==
    /\ pc = "done"
    /\ resp.kind = "error"
    /\ resp.code = "TOKEN_LIMIT_EXCEEDED"
    /\ gates = <<Gate("rate_limit", TRUE), Gate("input", TRUE),
                 Gate("rulepack", TRUE), Gate("token", FALSE)>>
    /\ ~llmReached
    /\ callLog = <<>>

\* C5: when the validator reports isValid = FALSE for the first model output
\* of a request, exactly one regeneration call is made before the response
\* is returned.
C5_RegeneratesOnce ==
    (/\ pc = "done"
     /\ validationResults # NoCall
     /\ ~validationResults.validation.isValid) => Len(callLog) = 2

C7_NeverBlocks ==
    (pc = "done" /\ llmResponse # NoCall) =>
        /\ TextLength(llmResponse.content) > 0
        /\ resp.kind = "success"
        /\ resp.status = 200
        /\ resp.prompt = llmResponse.content
        /\ (validationResults # NoCall /\ ~validationResults.validation.isValid) =>
              (~resp.validation.passed /\ resp.validation.suggestions # <<>>)

\* A text that leaks a meta-instruction is returned as the prompt.
C7_Witness ==
    /\ pc = "done"
    /\ llmResponse # NoCall
    /\ validationResults # NoCall
    /\ ~validationResults.validation.isValid
    /\ resp.kind = "success"
    /\ resp.prompt = BuildText(LeakMaking, "press_release")
    /\ ~resp.validation.passed

-----------------------------------------------------------------------------
\* C8: validator hard-error dominance.  Every text that contains a phrase of
\* the meta-instruction leak list is reported with isValid = FALSE and
\* overallScore <= 60, whatever the other six checks report.
C8_LeakDominates ==
    (vres # NoCall /\ vmade.leak) =>
        /\ ~vres.validation.isValid
        /\ vres.overallScore <= 60

\* A text with a leak phrase on which the other six checks all pass: the
\* scorecard percentage is 86 and the overall score is capped.
C8_Witness ==
    /\ vres # NoCall
    /\ vmade.leak
    /\ vres.checklist.passedChecks = 6
    /\ vres.checklist.score = 86
    /\ vres.overallScore = 60

\* A text assembled to satisfy all seven scorecard conditions at once
AllSevenMade(m) ==
    /\ m.role = "phrase_and_noun"
    /\ ~m.leak
    /\ ~m.generic
    /\ m.length = "long"
    /\ m.formatName = "same"
    /\ m.structure /\ m.guideline /\ m.verb

PerfectResult(r) ==
    /\ r.validation.isValid
    /\ Len(r.checklist.passed) = 7
    /\ r.checklist.failed = <<>>
    /\ r.overallScore = 100

\* For each of the six formats there is a text meeting the seven conditions
C9_Satisfiable ==
    \A f \in Formats :
        /\ AllSevenMade(PerfectMaking)
        /\ TextLength(BuildText(PerfectMaking, f)) > 500
        /\ PerfectResult(validatePrompt(BuildText(PerfectMaking, f), f))

\* C9: a text that satisfies all seven scorecard conditions at once is
\* reported with isValid = TRUE, seven passed items, no failed item and
\* overallScore = 100, and such a text exists for each of the six formats.
C9_KnownGood ==
    /\ C9_Satisfiable
    /\ (vres # NoCall /\ AllSevenMade(vmade)) => PerfectResult(vres)

C9_Witness ==
    /\ vres # NoCall
    /\ AllSevenMade(vmade)
    /\ vformat = "media_scraping"
    /\ vres.overallScore = 100

SeqToSet(q) == {q[i] : i \in 1..Len(q)}

\* C10: isValid is FALSE exactly when check 1 (role definition) or check 2 (no
\* leaked meta-instructions) is among the failed items; a failed check 3..7
\* adds one warning and no error.
C10_HardAndSoft ==
    vres # NoCall =>
        LET failed == SeqToSet(vres.checklist.failed)
            hard == {CheckNames[1], CheckNames[2]}
            soft == {CheckNames[i] : i \in 3..7}
        IN /\ vres.validation.isValid <=> (failed \cap hard = {})
           /\ SeqToSet(vres.validation.errors) = failed \cap hard
           /\ SeqToSet(vres.validation.warnings) = failed \cap soft
           /\ Len(vres.validation.errors) = Cardinality(failed \cap hard)
           /\ Len(vres.validation.warnings) = Cardinality(failed \cap soft)
           /\ (vmade.role # "phrase_and_noun" => CheckNames[1] \in failed)
           /\ (vmade.leak => CheckNames[2] \in failed)

\* All five soft checks fail and the text is still valid.
C10_Witness ==
    /\ vres # NoCall
    /\ Len(vres.validation.warnings) = 5
    /\ vres.validation.errors = <<>>
    /\ vres.validation.isValid
    /\ vres.checklist.score = 29

-----------------------------------------------------------------------------
\* C11: for every configured integer ceiling, checkTokenLimits returns
\* allowed = FALSE exactly when the estimate of the payload exceeds
\* floor(ceiling * 0.8).
C11_FloorOfEighty ==
    tokLast # NoCall =>
        LET estimate == GuardEstimateTokens(tokLast.chars)
            ceiling == tokLimits[tokLast.level]
        IN ~tokLast.result.allowed <=> (estimate > (ceiling * 8) \div 10)

\* Two calls at the same level, the earlier with the smaller estimate
SmallerThenLarger ==
    /\ tokPrev # NoCall
    /\ tokLast # NoCall
    /\ tokPrev.level = tokLast.level
    /\ GuardEstimateTokens(tokPrev.chars) < GuardEstimateTokens(tokLast.chars)

\* C12 as stated: for payloads A, B of the same level with estimate(A) <
\* estimate(B), if B is rejected then A is not rejected.
C12_RejectedThenAccepted ==
    (SmallerThenLarger /\ ~tokLast.result.allowed) => tokPrev.result.allowed

\* C12 as amended: for payloads A, B of the same level with estimate(A) <
\* estimate(B), if B is accepted then A is accepted (so if A is rejected, B is
\* rejected).
C12_Monotone ==
    (SmallerThenLarger /\ tokLast.result.allowed) => tokPrev.result.allowed

\* B fills its allowance to the last token and A is smaller
C12_Witness ==
    /\ SmallerThenLarger
    /\ tokLast.result.allowed
    /\ tokLast.result.remaining = 0
    /\ tokPrev.result.allowed

-----------------------------------------------------------------------------
\* The request ended in a response of the handler
Answered == pc = "done" /\ resp.kind \in {"success", "error"}

\* C13: every failure raised while handling POST, a failure while obtaining
\* the rate limiter, the token guard or the LLM client included, ends in the
\* structured error payload; no exception escapes the handler.
C13_AllCaught ==
    pc = "done" =>
        /\ Answered
        /\ resp.kind = "error" => (~resp.success /\ "code" \in DOMAIN resp)

\* The request failed in generateContent with the given LLMError code
CallFailedWith(code) ==
    /\ pc = "done"
    /\ resp.kind = "error"
    /\ "cause" \in DOMAIN resp
    /\ resp.cause = code

\* C14: a request whose model call timed out fails with the timeout kind in
\* its payload and one whose call met an upstream 429 with the
\* upstream-rate-limited kind, neither being the kind of unclassified
\* internal failures.
C14_TimeoutKind ==
    /\ CallFailedWith("TIMEOUT") =>
           (resp.code \in {"TIMEOUT", "UPSTREAM_TIMEOUT"} /\ resp.code # "INTERNAL_ERROR")
    /\ CallFailedWith("RATE_LIMIT") =>
           (resp.code \in {"RATE_LIMIT", "UPSTREAM_RATE_LIMITED"} /\ resp.code # "INTERNAL_ERROR")

\* The count of a key at time t: that of its entry, 0 without a live entry
CountAt(st, key, t) ==
    IF key \in DOMAIN st /\ ~(t > st[key].resetTime) THEN st[key].count ELSE 0

\* C15: a request that passes admission control and then fails (invalid
\* input, missing rule-pack, token limit exceeded, upstream error) leaves the
\* burst counter of its identity at the value it had before the request.
C15_BurstSkipsFailed ==
    (/\ pc = "done"
     /\ resp.kind = "error"
     /\ resp.status # 429
     /\ arrival # NoCall
     /\ rateLimitResult # NoCall) =>
        CountAt(store, KeyOf(Ip1, "burst"), arrival.now) =
            CountAt(arrival.store, KeyOf(Ip1, "burst"), arrival.now)

-----------------------------------------------------------------------------
(* Mode resolution: PromptGenerator.getRequiredSectionsForMode and the       *)
(* utility getRequiredSections.  A rule-pack is                              *)
(*   [requiredSections, modes |-> [declared, table]]                         *)
(* where declared says whether the modes field is present and table maps the *)
(* declared mode names to their requiredSections; a mode argument is         *)
(* [given, name], given = FALSE standing for undefined.                      *)

\* Some of the property names every object inherits from Object.prototype
ObjectPrototypeKeys == {"constructor", "toString", "valueOf", "hasOwnProperty"}

\* getRulepack returned null
RulepackMissing == [kind |-> "null"]

\* rulepack.modes[mode]: the declared mode, else a property inherited from
\* Object.prototype (a function), else undefined
ModesGet(table, name) ==
    IF name \in DOMAIN table THEN [kind |-> "own", requiredSections |-> table[name]]
    ELSE IF name \in ObjectPrototypeKeys THEN [kind |-> "inherited"]
    ELSE [kind |-> "undefined"]

\* rulepack.modes && mode && rulepack.modes[mode]: the empty string is falsy
ModeHit(rulepack, mode) ==
    IF rulepack.modes.declared /\ mode.given /\ mode.name # ""
    THEN ModesGet(rulepack.modes.table, mode.name)
    ELSE [kind |-> "undefined"]

\* PromptGenerator.getRequiredSectionsForMode; defined = FALSE when the value
\* returned is undefined (an inherited function has no requiredSections)
getRequiredSectionsForMode(rulepack, mode) ==
    LET hit == ModeHit(rulepack, mode)
    IN IF hit.kind = "own" THEN [defined |-> TRUE, sections |-> hit.requiredSections]
       ELSE IF hit.kind = "inherited" THEN [defined |-> FALSE]
       ELSE [defined |-> TRUE, sections |-> rulepack.requiredSections]

\* getRequiredSections of the rule-pack loader, given what getRulepack returned
getRequiredSections(rulepack, mode) ==
    IF rulepack = RulepackMissing THEN RulepackMissing
    ELSE LET hit == ModeHit(rulepack, mode)
         IN IF hit.kind = "own" THEN [defined |-> TRUE, sections |-> hit.requiredSections]
            ELSE IF hit.kind = "inherited" THEN [defined |-> FALSE]
            ELSE [defined |-> TRUE, sections |-> rulepack.requiredSections]

DeclarableModes == {"press", "brief", "constructor"}

ModeSections(name) ==
    CASE name = "press" -> <<"a", "b">>
      [] name = "brief" -> <<"c">>
      [] name = "constructor" -> <<"d", "e">>

DefaultSections == {<<"x", "y", "z">>, <<"a", "b">>}

ModeTables ==
    {[declared |-> FALSE, table |-> <<>>]} \cup
    {[declared |-> TRUE, table |-> [name \in names |-> ModeSections(name)]] :
        names \in SUBSET DeclarableModes}

SampleRulepacks ==
    {[requiredSections |-> d, modes |-> m] : d \in DefaultSections, m \in ModeTables}

ModeRequests ==
    {[given |-> FALSE, name |-> ""]} \cup
    {[given |-> TRUE, name |-> n] : n \in {"press", "brief", "foo", "", "constructor", "toString"}}

InitMode ==
    /\ clock = 0 /\ ticks = 0 /\ ncalls = 0 /\ last = NoCall /\ win = EmptyStore
    /\ store = EmptyStore
    /\ vtext = EmptyText /\ vmade = NoCall /\ vformat = "press_release" /\ vres = NoCall
    /\ PostIdle
    /\ TokIdle /\ MdIdle /\ RpIdle /\ ExtIdle
    /\ \E rulepack \in SampleRulepacks \cup {RulepackMissing}, mode \in ModeRequests :
          modeIn = [rulepack |-> rulepack, mode |-> mode]
    /\ modeOut = NoCall

\* The two resolutions applied to the same arguments
ResolveMode ==
    /\ modeOut = NoCall
    /\ modeOut' =
          [forMode |-> IF modeIn.rulepack = RulepackMissing THEN NoCall
                       ELSE getRequiredSectionsForMode(modeIn.rulepack, modeIn.mode),
           utility |-> getRequiredSections(modeIn.rulepack, modeIn.mode)]
    /\ UNCHANGED modeIn
    /\ UNCHANGED rlVars
    /\ UNCHANGED valVars
    /\ UNCHANGED postVars
    /\ UNCHANGED <<tokVars, mdVars, rpVars, extVars>>

NextMode == ResolveMode

SpecMode == InitMode /\ [][NextMode]_vars

\* The list the claim names for a rule-pack and a requested mode
NamedOrDefault(rulepack, mode) ==
    IF rulepack.modes.declared /\ mode.given /\ mode.name \in DOMAIN rulepack.modes.table
    THEN rulepack.modes.table[mode.name]
    ELSE rulepack.requiredSections

\* C16: for every rule-pack and every requested mode name, the effective
\* required-section list is the named mode's list when the rule-pack declares
\* a mode of exactly that name, and the default list in every other case.
C16_ModeResolution ==
    (modeOut # NoCall /\ modeIn.rulepack # RulepackMissing) =>
        LET expected == [defined |-> TRUE,
                         sections |-> NamedOrDefault(modeIn.rulepack, modeIn.mode)]
        IN /\ modeOut.forMode = expected
           /\ modeOut.utility = expected

-----------------------------------------------------------------------------
(* ChecklistLoader.parseMarkdownChecklist.  A line is a sequence of tokens:  *)
(* the characters "#", " ", "-", "[", "]", "x" and words.                    *)

\* Longest content explored, in lines, besides the fixture
MaxLines == 4

RECURSIVE DropLeading(_, _)
DropLeading(line, ch) ==
    IF line # <<>> /\ Head(line) = ch THEN DropLeading(Tail(line), ch) ELSE line

RECURSIVE DropTrailing(_, _)
DropTrailing(line, ch) ==
    IF line # <<>> /\ line[Len(line)] = ch
    THEN DropTrailing(SubSeq(line, 1, Len(line) - 1), ch)
    ELSE line

\* line.trim()
Trim(line) == DropTrailing(DropLeading(line, " "), " ")

StartsWith(line, prefix) ==
    Len(line) >= Len(prefix) /\ SubSeq(line, 1, Len(prefix)) = prefix

LeadingHashes(line) == Len(line) - Len(DropLeading(line, "#"))

\* !trimmedLine || trimmedLine.startsWith("# ")
IsSkipped(t) == t = <<>> \/ StartsWith(t, <<"#", " ">>)

\* trimmedLine.match(/^#{2,3}\s+/): two or three "#" and then white space
IsCategoryHeader(t) ==
    LET n == LeadingHashes(t)
    IN n \in {2, 3} /\ Len(t) > n /\ t[n + 1] = " "

\* trimmedLine.replace(/^#+\s+/, "")
HeaderName(t) ==
    LET rest == DropLeading(t, "#")
    IN IF rest # <<>> /\ Head(rest) = " " THEN DropLeading(rest, " ") ELSE t

\* trimmedLine.startsWith("- [ ]")
IsUncheckedItem(t) == StartsWith(t, <<"-", " ", "[", " ", "]">>)

\* trimmedLine.replace(/^-\s+\[\s+\]\s+/, ""): unchanged without a match
ItemText(t) ==
    LET a == IF t # <<>> /\ Head(t) = "-" THEN Tail(t) ELSE <<>>
        b == DropLeading(a, " ")
        c == IF Len(b) < Len(a) /\ b # <<>> /\ Head(b) = "[" THEN Tail(b) ELSE <<>>
        d == DropLeading(c, " ")
        e == IF Len(d) < Len(c) /\ d # <<>> /\ Head(d) = "]" THEN Tail(d) ELSE <<>>
        f == DropLeading(e, " ")
    IN IF e # <<>> /\ Len(f) < Len(e) THEN f ELSE t

ParserStart == [checklist |-> <<>>, currentCategory |-> <<>>, currentItems |-> <<>>]

PushCategory_Always(acc) ==
    Append(acc.checklist, [category |-> acc.currentCategory, items |-> acc.currentItems])

\* if (currentCategory && currentItems.length > 0) checklist.push(...)
PushCategory(acc) ==
    IF acc.currentCategory # <<>> /\ Len(acc.currentItems) > 0
    THEN Append(acc.checklist, [category |-> acc.currentCategory, items |-> acc.currentItems])
    ELSE acc.checklist

\* The body of the for loop for one line
ParseLine(acc, line) ==
    LET t == Trim(line)
    IN IF IsSkipped(t) THEN acc
       ELSE IF IsCategoryHeader(t)
       THEN [checklist |-> PushCategory(acc),
             currentCategory |-> HeaderName(t),
             currentItems |-> <<>>]
       ELSE IF IsUncheckedItem(t)
       THEN [acc EXCEPT !.currentItems = Append(@, ItemText(t))]
       ELSE acc

RECURSIVE ParseLines(_, _, _)
ParseLines(acc, lines, i) ==
    IF i > Len(lines) THEN acc ELSE ParseLines(ParseLine(acc, lines[i]), lines, i + 1)

\* ChecklistLoader.parseMarkdownChecklist(content), lines = content.split("\n")
parseMarkdownChecklist(lines) == PushCategory(ParseLines(ParserStart, lines, 1))

\* Lines a checklist file can hold, each with what it is in the file
HeaderLine(hashes, name) ==
    [kind |-> "header", name |-> <<name>>, text |-> hashes \o <<" ", name>>]

ItemLine(indent, name) ==
    [kind |-> "item", name |-> <<name>>,
     text |-> indent \o <<"-", " ", "[", " ", "]", " ", name>>]

OtherLine(text) == [kind |-> "other", name |-> <<>>, text |-> text]

LineSamples ==
    { OtherLine(<<>>),
      OtherLine(<<"#", " ", "T">>),
      OtherLine(<<"#", "#", "#", "#", " ", "C">>),
      OtherLine(<<"-", " ", "[", "x", "]", " ", "done">>),
      HeaderLine(<<"#", "#">>, "A"),
      HeaderLine(<<"#", "#", "#">>, "B"),
      ItemLine(<<>>, "i1"),
      ItemLine(<<" ", " ">>, "i2") }

\* Two category headers, three unchecked items under the first and two under
\* the second
Fixture ==
    << OtherLine(<<"#", " ", "T">>),
       HeaderLine(<<"#", "#">>, "A"),
       ItemLine(<<>>, "i1"), ItemLine(<<>>, "i2"), ItemLine(<<>>, "i3"),
       OtherLine(<<>>),
       HeaderLine(<<"#", "#">>, "B"),
       ItemLine(<<>>, "i4"), ItemLine(<<>>, "i5") >>

Contents ==
    {Fixture} \cup UNION {[1..n -> LineSamples] : n \in 0..MaxLines}

TextOf(content) == [i \in 1..Len(content) |-> content[i].text]

InitChecklist ==
    /\ clock = 0 /\ ticks = 0 /\ ncalls = 0 /\ last = NoCall /\ win = EmptyStore
    /\ store = EmptyStore
    /\ vtext = EmptyText /\ vmade = NoCall /\ vformat = "press_release" /\ vres = NoCall
    /\ PostIdle
    /\ TokIdle /\ ModeIdle /\ RpIdle /\ ExtIdle
    /\ mdIn \in Contents
    /\ mdOut = NoCall

\* One call parseMarkdownChecklist(content)
ParseChecklist ==
    /\ mdOut = NoCall
    /\ mdOut' = [checklist |-> parseMarkdownChecklist(TextOf(mdIn))]
    /\ UNCHANGED mdIn
    /\ UNCHANGED rlVars
    /\ UNCHANGED valVars
    /\ UNCHANGED postVars
    /\ UNCHANGED <<tokVars, modeVars, rpVars, extVars>>

NextChecklist == ParseChecklist

SpecChecklist == InitChecklist /\ [][NextChecklist]_vars

\* The unchecked items from line i up to the next header or the end
RECURSIVE ItemsUpToNextHeader(_, _)
ItemsUpToNextHeader(content, i) ==
    IF i > Len(content) \/ content[i].kind = "header" THEN <<>>
    ELSE (IF content[i].kind = "item" THEN <<content[i].name>> ELSE <<>>)
            \o ItemsUpToNextHeader(content, i + 1)

\* The headers from line i on that have an item, each with its items
RECURSIVE CategoriesFrom(_, _)
CategoriesFrom(content, i) ==
    IF i > Len(content) THEN <<>>
    ELSE IF content[i].kind = "header"
    THEN LET items == ItemsUpToNextHeader(content, i + 1)
         IN (IF items # <<>> THEN <<[category |-> content[i].name, items |-> items]>> ELSE <<>>)
                \o CategoriesFrom(content, i + 1)
    ELSE CategoriesFrom(content, i + 1)

\* C17: the parsed categories appear in source order, each holding exactly
\* the unchecked items that follow its header up to the next header, in
\* order; a header without items is dropped; two headers followed by 3 and 2
\* items give two categories of sizes 3 and 2.
C17_ParsedInOrder ==
    mdOut # NoCall =>
        /\ mdOut.checklist = CategoriesFrom(mdIn, 1)
        /\ mdIn = Fixture =>
              /\ Len(mdOut.checklist) = 2
              /\ Len(mdOut.checklist[1].items) = 3
              /\ Len(mdOut.checklist[2].items) = 2

\* A content with a header that has no item and a header that has two
C17_Witness ==
    /\ mdOut # NoCall
    /\ Len(mdIn) = 4
    /\ mdIn[1].kind = "header" /\ mdIn[2].kind = "header"
    /\ mdIn[3].kind = "item" /\ mdIn[4].kind = "item"
    /\ Len(mdOut.checklist) = 1
    /\ mdOut.checklist[1].category = mdIn[2].name
    /\ mdOut.checklist[1].items = <<mdIn[3].name, mdIn[4].name>>

-----------------------------------------------------------------------------
(* RulepackLoader: the cache of rule-packs.  loadFormatPack is an async      *)
(* function: it runs up to its await of readFile when called, and the rest   *)
(* when the read settles; other calls may run in between.  A rule-pack       *)
(* object is [key, id], id being the ordinal of the read that produced it.   *)

\* Number of calls of loadFormatPack, getRulepack, preloadAll and clearCache
MaxLoaderCalls == 3

\* const cacheKey = `${format}_${version}`
CacheKey(format, version) == <<format, "_", version>>

\* What rulepacks/format holds: for each file, whether it passes
\* AnyRulepackSchema.parse; a key without a file is not in the domain
AllV1Valid == [key \in {CacheKey(f, "v1") : f \in Formats} |-> "valid"]

StorageSamples ==
    { (CacheKey("sns", "v2") :> "valid") @@ AllV1Valid,
      (CacheKey("speech", "v1") :> "invalid") @@ AllV1Valid,
      [key \in {CacheKey(f, "v1") : f \in Formats \ {"speech"}} |-> "valid"] }

\* readFile, yaml.load and AnyRulepackSchema.parse all succeed
LoadSucceeds(files, key) == key \in DOMAIN files /\ files[key] = "valid"

\* The calls loadFormatPack(format, version) and getRulepack(format, version)
\* explored
LoadTargets ==
    { <<"sns", "v1", "loadFormatPack">>, <<"sns", "v2", "loadFormatPack">>,
      <<"speech", "v1", "loadFormatPack">>, <<"speech", "v1", "getRulepack">>,
      <<"nonexistent", "v1", "loadFormatPack">>, <<"nonexistent", "v1", "getRulepack">> }

\* A preloadAll counts as this many calls towards MaxLoaderCalls
PreloadWeight == 2

InitLoader ==
    /\ clock = 0 /\ ticks = 0 /\ ncalls = 0 /\ last = NoCall /\ win = EmptyStore
    /\ store = EmptyStore
    /\ vtext = EmptyText /\ vmade = NoCall /\ vformat = "press_release" /\ vres = NoCall
    /\ PostIdle
    /\ TokIdle /\ ModeIdle /\ MdIdle /\ ExtIdle
    /\ rpFiles \in StorageSamples
    /\ rpCache = <<>> /\ rpReads = 0 /\ rpPending = {} /\ rpPreload = NoCall
    /\ rpSince = {} /\ rpFailed = {} /\ rpLast = NoCall /\ rpCalls = 0
    /\ rpReturned = {}

LoaderFrame ==
    /\ UNCHANGED rpFiles
    /\ UNCHANGED rlVars
    /\ UNCHANGED valVars
    /\ UNCHANGED postVars
    /\ UNCHANGED <<tokVars, modeVars, mdVars, extVars>>

ReadsCached_Again(cache, key) == FALSE

\* if (this.cache.has(cacheKey)) return this.cache.get(cacheKey)
ReadsCached(cache, key) == key \in DOMAIN cache

\* loadFormatPack(format, version) up to its first await, called directly
\* (via = "loadFormatPack") or through getRulepack (via = "getRulepack")
LoadBegin(format, version, via) ==
    /\ rpCalls < MaxLoaderCalls
    /\ rpCalls' = rpCalls + 1
    /\ LET key == CacheKey(format, version)
       IN IF ReadsCached(rpCache, key)
          THEN /\ rpLast' = [op |-> via, step |-> "hit", key |-> key,
                             outcome |-> "resolved", returned |-> rpCache[key],
                             cacheBefore |-> rpCache, readsBefore |-> rpReads]
               /\ UNCHANGED <<rpReads, rpPending>>
          ELSE /\ rpReads' = rpReads + 1
               /\ rpPending' = rpPending \cup {[key |-> key, via |-> via, id |-> rpReads + 1]}
               /\ rpLast' = [op |-> via, step |-> "read", key |-> key,
                             cacheBefore |-> rpCache, readsBefore |-> rpReads]
    /\ UNCHANGED <<rpCache, rpSince, rpFailed, rpPreload, rpReturned>>
    /\ LoaderFrame

CacheAfterFailure_Poisoned(cache, key) ==
    MapSet(cache, key, [key |-> key, id |-> 0, content |-> ""])

\* The catch of loadFormatPack rethrows and writes nothing to the cache
CacheAfterFailure(cache, key) == cache

CacheSet_PerCall(cache, key, rulepack) == MapSet(cache, key \o <<rulepack.id>>, rulepack)

\* this.cache.set(cacheKey, rulepack)
CacheSet(cache, key, rulepack) == MapSet(MapDelete(cache, key), key, rulepack)

\* The preloadAll in progress after one of its loads settled
PreloadAfter(load, ok) ==
    IF load.via # "preloadAll" \/ rpPreload = NoCall THEN rpPreload
    ELSE IF ~ok THEN [rpPreload EXCEPT !.state = "rejected"]
    ELSE IF rpPreload.state = "running"
            /\ ~\E other \in rpPending \ {load} : other.via = "preloadAll"
    THEN [rpPreload EXCEPT !.state = "resolved"]
    ELSE rpPreload

\* The read of a pending load settles: the rest of loadFormatPack, and of
\* getRulepack or of Promise.all in loadAllFormatPacks around it
LoadSettle(load) ==
    /\ load \in rpPending
    /\ rpPending' = rpPending \ {load}
    /\ LET ok == LoadSucceeds(rpFiles, load.key)
           rulepack == [key |-> load.key, id |-> load.id,
                        content |-> IF ok THEN rpFiles[load.key] ELSE ""]
       IN /\ rpCache' = IF ok THEN CacheSet(rpCache, load.key, rulepack)
                         ELSE CacheAfterFailure(rpCache, load.key)
          /\ rpSince' = IF ok THEN rpSince \cup {load.key} ELSE rpSince
          /\ rpReturned' = IF ok THEN rpReturned \cup {rulepack} ELSE rpReturned
          /\ rpFailed' = IF ok THEN rpFailed ELSE rpFailed \cup {load.key}
          /\ rpPreload' = PreloadAfter(load, ok)
          /\ rpLast' = [op |-> load.via, step |-> "settle", key |-> load.key,
                        outcome |-> IF ok THEN "resolved"
                                    ELSE IF load.via = "getRulepack" THEN "null"
                                    ELSE "rejected",
                        returned |-> IF ok THEN rulepack ELSE NoCall,
                        cacheBefore |-> rpCache, readsBefore |-> rpReads]
    /\ UNCHANGED <<rpReads, rpCalls>>
    /\ LoaderFrame

\* The keys preloadAll(version) finds missing in the cache, in the order of
\* FormatEnum.options; each gets its own read
FormatOrder == <<"press_release", "speech", "sns", "inquiry", "report", "media_scraping">>

\* preloadAll(version): loadAllFormatPacks starts loadFormatPack for every
\* format before it awaits any
PreloadAll(version) ==
    /\ rpCalls + PreloadWeight <= MaxLoaderCalls
    /\ (IF rpPreload = NoCall THEN TRUE ELSE rpPreload.state # "running")
    /\ rpCalls' = rpCalls + PreloadWeight
    /\ LET missing == {i \in 1..Len(FormatOrder) :
                          ~ReadsCached(rpCache, CacheKey(FormatOrder[i], version))}
           ordinal(i) == Cardinality({j \in missing : j <= i})
       IN /\ rpPending' = rpPending \cup
                {[key |-> CacheKey(FormatOrder[i], version), via |-> "preloadAll",
                  id |-> rpReads + ordinal(i)] : i \in missing}
          /\ rpReads' = rpReads + Cardinality(missing)
          /\ rpPreload' = [version |-> version, cleared |-> FALSE,
                           state |-> IF missing = {} THEN "resolved" ELSE "running"]
    /\ rpLast' = [op |-> "preloadAll", step |-> "read", key |-> <<>>,
                  cacheBefore |-> rpCache, readsBefore |-> rpReads]
    /\ UNCHANGED <<rpCache, rpSince, rpFailed, rpReturned>>
    /\ LoaderFrame

\* RulepackLoader.clearCache()
ClearCache ==
    /\ rpCalls < MaxLoaderCalls
    /\ rpCalls' = rpCalls + 1
    /\ rpCache' = <<>>
    /\ rpSince' = {}
    /\ rpReturned' = {}
    /\ rpPreload' = IF rpPreload = NoCall THEN NoCall ELSE [rpPreload EXCEPT !.cleared = TRUE]
    /\ rpLast' = [op |-> "clearCache", step |-> "done", key |-> <<>>,
                  cacheBefore |-> rpCache, readsBefore |-> rpReads]
    /\ UNCHANGED <<rpReads, rpPending, rpFailed>>
    /\ LoaderFrame

LoadBeginAny ==
    \E target \in LoadTargets : LoadBegin(target[1], target[2], target[3])
LoadSettleAny == \E load \in rpPending : LoadSettle(load)
PreloadAllAny == PreloadAll("v1")

NextLoader ==
    \/ LoadBeginAny
    \/ LoadSettleAny
    \/ PreloadAllAny
    \/ ClearCache

SpecLoader == InitLoader /\ [][NextLoader]_vars

\* The last loader step was of the given kind
LastStep(step) == rpLast # NoCall /\ rpLast.step = step

KeysOfVersion(cache, version) ==
    {key \in DOMAIN cache : \E f \in Formats : key = CacheKey(f, version)}

\* C18: the cache holds exactly one entry per key loaded successfully since
\* the last clearCache: it is empty right after clearCache, it holds every
\* format of the version after a preloadAll that resolved, and a load of a
\* cached key returns the cached object without reading storage, which only
\* loads of uncached keys do.
C18_CacheExact ==
    /\ DOMAIN rpCache = rpSince
    /\ \A key \in DOMAIN rpCache :
          rpCache[key].key = key /\ LoadSucceeds(rpFiles, key)
    /\ LastStep("done") => rpCache = <<>>
    /\ (IF rpPreload = NoCall THEN FALSE
        ELSE rpPreload.state = "resolved" /\ ~rpPreload.cleared) =>
           Cardinality(KeysOfVersion(rpCache, rpPreload.version)) = Cardinality(Formats)
    /\ LastStep("hit") =>
           /\ rpLast.key \in DOMAIN rpLast.cacheBefore
           /\ rpLast.returned = rpLast.cacheBefore[rpLast.key]
           /\ rpReads = rpLast.readsBefore
           /\ rpCache = rpLast.cacheBefore
    /\ (LastStep("read") /\ rpLast.op # "preloadAll") =>
           rpLast.key \notin DOMAIN rpLast.cacheBefore

\* After preloadAll filled the cache, a load of sns is answered from it
C18_Witness ==
    /\ LastStep("hit")
    /\ rpLast.key = CacheKey("sns", "v1")
    /\ Cardinality(DOMAIN rpCache) = Cardinality(Formats)
    /\ rpReads = Cardinality(Formats)

-----------------------------------------------------------------------------
(* The rate limiter called with identities a caller can supply: an IP, an   *)
(* x-session-id value, and an x-session-id value that spells a policy name  *)
(* and an IP.                                                               *)

\* x-session-id: burst:ip1
SessionNamedBurstIp1 == <<"burst", ":", "ip1">>

SuppliedIdentities == {Ip1, Session1, SessionNamedBurstIp1}

Pairs == {[identifier |-> i, configName |-> c] : i \in SuppliedIdentities, c \in ConfigNames}

InitKeys ==
    /\ clock = 0 /\ ticks = 0 /\ ncalls = 0 /\ last = NoCall /\ win = EmptyStore
    /\ store = EmptyStore
    /\ vtext = EmptyText /\ vmade = NoCall /\ vformat = "press_release" /\ vres = NoCall
    /\ PostIdle
    /\ LibIdle

CheckLimitOfPair == \E p \in Pairs : CheckLimit(p.identifier, p.configName)

NextKeys ==
    \/ CheckLimitOfPair
    \/ TickAny

SpecKeys == InitKeys /\ [][NextKeys]_vars

\* What the store holds for a (policy, identity) pair
EntryOf(st, p) ==
    LET key == KeyOf(p.identifier, p.configName)
    IN IF key \in DOMAIN st THEN st[key] ELSE NoCall

\* C20: for any two distinct (policy, identity) pairs, a checkLimit call on
\* one never changes the count or resetTime stored for the other, whatever
\* identity string the caller supplies.
C20_PerPairState ==
    [][\A p \in Pairs :
          CheckLimit(p.identifier, p.configName) =>
              \A q \in Pairs \ {p} : EntryOf(store', q) = EntryOf(store, q)]_vars

-----------------------------------------------------------------------------
(* Concurrent checkLimit calls on one key.  checkLimit and                   *)
(* MemoryStore.increment are async functions: a call runs until its next     *)
(* await, and what follows the await runs as a microtask, in the order the   *)
(* microtasks were queued.  increment awaits this.get(key) and               *)
(* this.set(key, entry), and checkLimit awaits increment; get and set have   *)
(* no await of their own and run inside the step that calls them.  Entries   *)
(* are objects: the Map holds a reference, and so does a call that was       *)
(* handed the entry by get.                                                  *)

\* Number of checkLimit calls started
MaxConcurrent == 6

ConcPolicy == "burst"
ConcKey == KeyOf(Ip1, ConcPolicy)

\* The entry left by k sequential calls at time 0, as the only object so far
InitConc ==
    /\ ticks = 0 /\ ncalls = 0 /\ last = NoCall /\ win = EmptyStore
    /\ store = EmptyStore
    /\ vtext = EmptyText /\ vmade = NoCall /\ vformat = "press_release" /\ vres = NoCall
    /\ PostIdle
    /\ TokIdle /\ ModeIdle /\ MdIdle /\ RpIdle
    /\ SwIdle /\ PgIdle /\ VcIdle
    /\ ccCalls = <<>> /\ ccQueue = <<>>
    /\ \E k \in PriorCalls(ConcPolicy), t \in {0, Configs[ConcPolicy].windowMs + 1} :
          LET st == AfterCalls(EmptyStore, Ip1, ConcPolicy, 0, k)
          IN /\ clock = t
             /\ ccHeap = IF k = 0 THEN <<>> ELSE <<st[ConcKey]>>
             /\ ccRef = IF k = 0 THEN 0 ELSE 1
             /\ ccBase = CountAt(st, ConcKey, t)

ConcFrame ==
    /\ UNCHANGED ccBase
    /\ UNCHANGED rlVars
    /\ UNCHANGED valVars
    /\ UNCHANGED postVars
    /\ UNCHANGED <<tokVars, modeVars, mdVars, rpVars>>
    /\ UNCHANGED <<swVars, pgVars, vcVars>>

\* checkLimit is called: it runs into increment, which reads Date.now() and
\* runs get; get deletes an expired entry and returns null (0) for it
Conc_Call ==
    /\ Len(ccCalls) < MaxConcurrent
    /\ LET expired == ccRef # 0 /\ clock > ccHeap[ccRef].resetTime
           existing == IF ccRef = 0 \/ expired THEN 0 ELSE ccRef
       IN /\ ccRef' = existing
          /\ ccCalls' = Append(ccCalls, [pc |-> "after_get", now |-> clock,
                                         existing |-> existing, entry |-> 0,
                                         result |-> NoCall])
    /\ ccQueue' = Append(ccQueue, Len(ccCalls) + 1)
    /\ UNCHANGED ccHeap
    /\ ConcFrame

\* increment resumes after await this.get(key) and runs up to await this.set
Conc_AfterGet(id) ==
    /\ ccCalls[id].pc = "after_get"
    /\ LET call == ccCalls[id]
           cfg == Configs[ConcPolicy]
           fresh == call.existing = 0 \/ WindowExpired(call.now, ccHeap[call.existing])
           entry == IF fresh THEN Len(ccHeap) + 1 ELSE call.existing
       IN /\ ccHeap' = IF fresh THEN Append(ccHeap, NewEntry(call.now, cfg.windowMs))
                       ELSE [ccHeap EXCEPT ![entry].count = @ + 1]
          /\ ccRef' = entry
          /\ ccCalls' = [ccCalls EXCEPT ![id].pc = "after_set", ![id].entry = entry]
    /\ ccQueue' = Append(Tail(ccQueue), id)
    /\ ConcFrame

\* increment resumes after await this.set and returns the entry
Conc_AfterSet(id) ==
    /\ ccCalls[id].pc = "after_set"
    /\ ccCalls' = [ccCalls EXCEPT ![id].pc = "after_increment"]
    /\ ccQueue' = Append(Tail(ccQueue), id)
    /\ UNCHANGED <<ccHeap, ccRef>>
    /\ ConcFrame

\* checkLimit resumes after await this.store.increment and builds its result
\* from the entry as it is now
Conc_AfterIncrement(id) ==
    /\ ccCalls[id].pc = "after_increment"
    /\ ccCalls' = [ccCalls EXCEPT ![id].pc = "done",
                      ![id].result = LimitResult(ccHeap[ccCalls[id].entry],
                                                 Configs[ConcPolicy], clock)]
    /\ ccQueue' = Tail(ccQueue)
    /\ UNCHANGED <<ccHeap, ccRef>>
    /\ ConcFrame

\* The microtask at the head of the queue runs
Conc_AfterGetHead == ccQueue # <<>> /\ Conc_AfterGet(Head(ccQueue))
Conc_AfterSetHead == ccQueue # <<>> /\ Conc_AfterSet(Head(ccQueue))
Conc_AfterIncrementHead == ccQueue # <<>> /\ Conc_AfterIncrement(Head(ccQueue))

NextConc ==
    \/ Conc_Call
    \/ Conc_AfterGetHead
    \/ Conc_AfterSetHead
    \/ Conc_AfterIncrementHead

SpecConc == InitConc /\ [][NextConc]_vars

\* Every call started has returned
ConcAllReturned ==
    /\ ccCalls # <<>>
    /\ \A id \in 1..Len(ccCalls) : ccCalls[id].pc = "done"

\* C21: concurrent checkLimit calls for one key that interleave at the awaits
\* of MemoryStore.increment lose no increment: once the k calls made within
\* one window have returned the stored count is the count before them plus k
\* and at most maxRequests of them were answered allowed, also when no entry
\* existed for the key as they started.
C21_NoLostIncrement ==
    ConcAllReturned =>
        /\ ccRef # 0
        /\ ccHeap[ccRef].count = ccBase + Len(ccCalls)
        /\ Cardinality({id \in 1..Len(ccCalls) : ccCalls[id].result.allowed})
              <= Configs[ConcPolicy].maxRequests

-----------------------------------------------------------------------------
(* The periodic sweep.  Two limiters receive the same calls at the same      *)
(* times: the cleanup timer of the first never fires (store), that of the    *)
(* second may fire at any moment (swStore).                                  *)

\* MemoryStore.cleanup
Cleanup(st, t) == [k \in {key \in DOMAIN st : ~(t > st[key].resetTime)} |-> st[k]]

StatusAllowed_AtLimit(count, maxRequests) == count <= maxRequests

\* getStatus: const allowed = entry.count < config.maxRequests
StatusAllowed(count, maxRequests) == count < maxRequests

\* RateLimiter.getStatus
GetStatusOp(st, identifier, configName, t) ==
    LET cfg == Configs[configName]
        g == StoreGet(st, KeyOf(identifier, configName), t)
    IN IF ~g.found
       THEN [result |-> [allowed |-> TRUE, limit |-> cfg.maxRequests,
                         remaining |-> cfg.maxRequests, reset |-> t + cfg.windowMs],
             store |-> g.store]
       ELSE LET allowed == StatusAllowed(g.entry.count, cfg.maxRequests)
                base == [allowed |-> allowed, limit |-> cfg.maxRequests,
                         remaining |-> Max(0, cfg.maxRequests - g.entry.count),
                         reset |-> g.entry.resetTime]
            IN [result |-> IF allowed THEN base
                           ELSE [allowed |-> base.allowed, limit |-> base.limit,
                                 remaining |-> base.remaining, reset |-> base.reset,
                                 retryAfter |-> CeilDiv(g.entry.resetTime - t, MsPerSecond)],
                store |-> g.store]

InitSweep ==
    /\ clock = 0 /\ ticks = 0 /\ ncalls = 0 /\ last = NoCall /\ win = EmptyStore
    /\ vtext = EmptyText /\ vmade = NoCall /\ vformat = "press_release" /\ vres = NoCall
    /\ PostIdle
    /\ TokIdle /\ ModeIdle /\ MdIdle /\ RpIdle
    /\ CcIdle /\ PgIdle /\ VcIdle
    /\ \E kd \in PriorCalls("default"), kb \in PriorCalls("burst") :
          store = AfterCalls(AfterCalls(EmptyStore, Ip1, "default", 0, kd), Ip1, "burst", 0, kb)
    /\ swStore = store
    /\ swLast = NoCall /\ swPrev = NoCall

SweepFrame ==
    /\ UNCHANGED <<clock, ticks, win, last>>
    /\ UNCHANGED valVars
    /\ UNCHANGED postVars
    /\ UNCHANGED <<tokVars, modeVars, mdVars, rpVars>>
    /\ UNCHANGED <<ccVars, pgVars, vcVars>>

\* What a call on both limiters leaves in swLast
BothCalled(op, configName, plain, swept) ==
    [op |-> op, config |-> configName, key |-> KeyOf(Ip1, configName), now |-> clock,
     plain |-> plain.result, swept |-> swept.result,
     storeBefore |-> store, storeAfter |-> plain.store,
     stale |-> KeyOf(Ip1, configName) \in (DOMAIN store) \ (DOMAIN swStore)]

\* checkLimit(Ip1, configName) on both limiters
Sw_CheckLimit(configName) ==
    /\ ncalls < MaxCalls
    /\ ncalls' = ncalls + 1
    /\ LET plain == CheckLimitOp(store, Ip1, configName, clock)
           swept == CheckLimitOp(swStore, Ip1, configName, clock)
       IN /\ store' = plain.store
          /\ swStore' = swept.store
          /\ swLast' = BothCalled("checkLimit", configName, plain, swept)
    /\ swPrev' = swLast
    /\ SweepFrame

\* getStatus(Ip1, configName) on both limiters
Sw_GetStatus(configName) ==
    /\ ncalls < MaxCalls
    /\ ncalls' = ncalls + 1
    /\ LET plain == GetStatusOp(store, Ip1, configName, clock)
           swept == GetStatusOp(swStore, Ip1, configName, clock)
       IN /\ store' = plain.store
          /\ swStore' = swept.store
          /\ swLast' = BothCalled("getStatus", configName, plain, swept)
    /\ swPrev' = swLast
    /\ SweepFrame

\* The cleanup timer of the second limiter fires
Sw_Cleanup ==
    /\ swStore' = Cleanup(swStore, clock)
    /\ UNCHANGED <<store, ncalls, swLast, swPrev>>
    /\ SweepFrame

SweepPolicies == {"default", "burst"}

Sw_CheckLimitAny == \E c \in SweepPolicies : Sw_CheckLimit(c)
Sw_GetStatusAny == \E c \in SweepPolicies : Sw_GetStatus(c)

NextSweep ==
    \/ Sw_CheckLimitAny
    \/ Sw_GetStatusAny
    \/ Sw_Cleanup
    \/ TickAny

SpecSweep == InitSweep /\ [][NextSweep]_vars

\* C22: the sweep is only an optimisation.  For every sequence of checkLimit
\* and getStatus calls and clock advances, each call returns the same result
\* (allowed, limit, remaining, reset, retryAfter) on the limiter whose cleanup
\* runs at arbitrary moments as on the limiter whose cleanup never runs.
C22_SweepInvisible ==
    swLast # NoCall => swLast.swept = swLast.plain

\* A call on a key whose expired entry the sweep had removed from one
\* limiter while the other still held it; getStatus reports a fresh window
C22_Witness ==
    /\ swLast # NoCall
    /\ swLast.stale
    /\ swLast.op = "getStatus"
    /\ swLast.swept.allowed
    /\ swLast.swept.remaining = Configs[swLast.config].maxRequests
    /\ swLast.storeBefore[swLast.key].count >= Configs[swLast.config].maxRequests

-----------------------------------------------------------------------------
\* C23: after parsing any checklist text no two categories of the result
\* share a label; a header text that occurs twice with items under each
\* occurrence gives a single category of that label.
C23_UniqueLabels ==
    mdOut # NoCall =>
        \A i, j \in 1..Len(mdOut.checklist) :
            mdOut.checklist[i].category = mdOut.checklist[j].category => i = j

-----------------------------------------------------------------------------
\* Two rule-pack objects hold the same data (they may be distinct objects)
SameRulepack(a, b) == a.key = b.key /\ a.content = b.content

\* Two loads of one key that both read storage: the second missed the cache
\* before the first had filled it
RacedPairs == {pair \in rpReturned \X rpReturned : pair[1].key = pair[2].key /\ pair[1].id # pair[2].id}

\* C24: a race to populate one cache key is harmless.  When two loads of the
\* same uncached key both miss the cache before either has finished reading,
\* both resolve, the cache ends with exactly one entry for the key, and the
\* two values returned and the value cached are equivalent.
C24_HarmlessRace ==
    /\ (LastStep("settle") /\ LoadSucceeds(rpFiles, rpLast.key)) =>
           rpLast.outcome = "resolved" /\ rpLast.returned \in rpReturned
    /\ \A pair \in RacedPairs :
          /\ SameRulepack(pair[1], pair[2])
          /\ Cardinality({k \in DOMAIN rpCache : rpCache[k].key = pair[1].key}) = 1
          /\ pair[1].key \in DOMAIN rpCache
          /\ SameRulepack(rpCache[pair[1].key], pair[1])

\* Two loadFormatPack calls for sns began before either read settled; both
\* have resolved with objects of their own
C24_Witness ==
    /\ LastStep("settle")
    /\ rpLast.op = "loadFormatPack"
    /\ rpLast.outcome = "resolved"
    /\ rpLast.key \in DOMAIN rpLast.cacheBefore
    /\ rpLast.cacheBefore[rpLast.key].id # rpLast.returned.id
    /\ \E pair \in RacedPairs : pair[1] = rpLast.returned /\ pair[2] = rpLast.cacheBefore[rpLast.key]
    /\ rpPending = {}

-----------------------------------------------------------------------------
(* PromptGenerator.generateSystemPrompt.  The string returned is             *)
(* sections.join("\n"): a sequence of lines, and a line is a sequence of     *)
(* tokens.  The pictographs that open the block headers are the tokens       *)
(* "[clipboard]", "[check]", "[cross]", "[target]", "[lock]" and             *)
(* "[warning]", the bullet is "*", and the Korean phrases are written in     *)
(* romanised form, one token per phrase.                                     *)

BlankLine == <<>>

RoleLine == <<"dangsineun hanguk gukhoe bojwajinyong peurompeuteu saengseong jeonmungaimnida.">>

TaskLine(formatName) ==
    <<"juje-e teukhwadoen">> \o formatName \o <<"jakseongyong peurompeuteureul saengseonghaseyo.">>

SectionsHeader(formatName) == <<"[clipboard]">> \o formatName \o <<"gibon gujo:">>
DosHeader == <<"[check]", "jakseong wonchik:">>
DontsHeader == <<"[cross]", "geumjisahang:">>
GuidanceHeader == <<"[target]", "peurompeuteu saengseong jichim:">>
ComplianceHeader == <<"[lock]", "junsusahang:">>
RequirementsHeader == <<"[target]", "teukbyeol yogusahang:">>
StrictLine == <<"[warning]", "eomgyeok modeu: chulcheo myeongsiwa sasil geomjeungeul gangjohaneun jichim">>
ClosingLine == <<"saengseonghal peurompeuteuneun wanseongdoen hyeongtaeyeoya hamnida.">>
OutputOnlyLine == <<"sunsuhan peurompeuteu tekseuteuman chullyeokhaseyo.">>

\* PromptGenerator.getLevelDisplayName
getLevelDisplayName(level) ==
    CASE level = "basic" -> "gibon"
      [] level = "intermediate" -> "junggeup"
      [] level = "advanced" -> "gogeup"

\* PromptGenerator.getSectionDisplayName and getComplianceRuleDescription:
\* the entry of the table, the name itself when the table has none
getSectionDisplayName(section) ==
    CASE section = "headline" -> "jemok"
      [] section = "lead" -> "rideu mundan"
      [] section = "body" -> "bonmun"
      [] OTHER -> section

getComplianceRuleDescription(rule) ==
    CASE rule = "facts_required" -> "gaekgwanjeok sasil giban jakseong pilsu"
      [] rule = "source_required" -> "chulcheo mit geungeo myeongsi pilsu"
      [] OTHER -> rule

Bullet(text) == <<"*", text>>

\* items.map(x => "* " + x).join("\n"), one element of sections: the empty
\* string, a blank line, for an empty list
BulletLines(items) ==
    IF items = <<>> THEN <<BlankLine>> ELSE [i \in 1..Len(items) |-> Bullet(items[i])]

\* The six numbered lines under the guidance header
GuidanceLines(levelName, tokenLimit) ==
    << <<"1.", "jujereul bunseokhayeo teukseongeul paakhaseyo">>,
       <<"2.", "jujee manneun jeonmunjeok yeokhareul jeonguihaseyo">>,
       <<"3.", "jungyohan guchejeok jilmundeureul pohamhaseyo">>,
       <<"4.", "jeonmun yongeona goryeosahangeul myeongsihaseyo">>,
       <<"5.", levelName, "sujune manneun jakseong gaideureul jesihaseyo">>,
       <<"6.">> \o NumberToString(tokenLimit) \o <<"tokeun inae jakseong jichimeul pohamhaseyo">> >>

HasCompliance_Always(rulepack) == TRUE

\* rulepack.complianceRules && rulepack.complianceRules.length > 0
HasCompliance(rulepack) ==
    rulepack.complianceRules.given /\ Len(rulepack.complianceRules.list) > 0

\* PromptGenerator.generateSystemPrompt under the ceilings limits of the
\* environment; requiredSections.map throws when the mode resolved to undefined
generateSystemPrompt(config, limits) ==
    LET requiredSections == getRequiredSectionsForMode(config.rulepack, config.mode)
        formatName == getFormatDisplayName(config.format)
        names == [i \in 1..Len(requiredSections.sections) |->
                     getSectionDisplayName(requiredSections.sections[i])]
        rules == config.rulepack.complianceRules.list
    IN IF ~requiredSections.defined THEN [kind |-> "throws"]
       ELSE [kind |-> "text",
             lines |->
                <<RoleLine, TaskLine(formatName), BlankLine, SectionsHeader(formatName)>>
                \o BulletLines(names)
                \o <<BlankLine, DosHeader>> \o BulletLines(config.rulepack.dos)
                \o <<BlankLine, DontsHeader>> \o BulletLines(config.rulepack.donts)
                \o <<BlankLine, GuidanceHeader>>
                \o GuidanceLines(getLevelDisplayName(config.level), limits[config.level])
                \o (IF HasCompliance(config.rulepack)
                    THEN <<BlankLine, ComplianceHeader>>
                         \o [i \in 1..Len(rules) |-> Bullet(getComplianceRuleDescription(rules[i]))]
                    ELSE <<>>)
                \o (IF Len(config.additionalRequirements) > 0
                    THEN <<BlankLine, RequirementsHeader>>
                         \o [i \in 1..Len(config.additionalRequirements) |->
                                Bullet(config.additionalRequirements[i])]
                    ELSE <<>>)
                \o (IF config.strictMode THEN <<BlankLine, StrictLine>> ELSE <<>>)
                \o <<BlankLine, ClosingLine, OutputOnlyLine>>]

\* The rule-packs and requests explored
PromptRulepacks ==
    {[requiredSections |-> r.requiredSections, modes |-> r.modes,
      dos |-> dos, donts |-> <<"no exaggeration">>, complianceRules |-> rules] :
        r \in {x \in SampleRulepacks :
                  /\ x.requiredSections = <<"x", "y", "z">>
                  /\ DOMAIN x.modes.table \in {{}, {"press"}}},
        dos \in {<<>>, <<"be factual", "be brief">>},
        rules \in {[given |-> FALSE, list |-> <<>>],
                   [given |-> TRUE, list |-> <<>>],
                   [given |-> TRUE, list |-> <<"facts_required">>],
                   [given |-> TRUE, list |-> <<"source_required", "in_house_rule">>]}}

PromptConfigs ==
    [rulepack : PromptRulepacks,
     format : {"press_release", "sns"},
     level : Levels,
     mode : {m \in ModeRequests : m.name \in {"", "press", "constructor"}},
     additionalRequirements : {<<>>, <<"q1">>, <<"q1", "q2">>},
     strictMode : BOOLEAN]

InitPrompt ==
    /\ clock = 0 /\ ticks = 0 /\ ncalls = 0 /\ last = NoCall /\ win = EmptyStore
    /\ store = EmptyStore
    /\ vtext = EmptyText /\ vmade = NoCall /\ vformat = "press_release" /\ vres = NoCall
    /\ PostIdle
    /\ TokIdle /\ ModeIdle /\ MdIdle /\ RpIdle
    /\ CcIdle /\ SwIdle /\ VcIdle
    /\ \E config \in PromptConfigs, d \in {0, MaxCeilingOffset} :
          pgIn = [config |-> config, limits |-> [level \in Levels |-> TokenLimit(level) + d]]
    /\ pgOut = NoCall

\* One call PromptGenerator.generateSystemPrompt(config)
GeneratePrompt ==
    /\ pgOut = NoCall
    /\ pgOut' = generateSystemPrompt(pgIn.config, pgIn.limits)
    /\ UNCHANGED pgIn
    /\ UNCHANGED rlVars
    /\ UNCHANGED valVars
    /\ UNCHANGED postVars
    /\ UNCHANGED <<tokVars, modeVars, mdVars, rpVars>>
    /\ UNCHANGED <<ccVars, swVars, vcVars>>

NextPrompt == GeneratePrompt

SpecPrompt == InitPrompt /\ [][NextPrompt]_vars

\* The block a line opens, "" for a line that opens none
BlockOpenedBy(line) ==
    IF line = RoleLine THEN "role"
    ELSE IF line # <<>> /\ Head(line) = "[clipboard]" THEN "sections"
    ELSE IF line = DosHeader THEN "dos"
    ELSE IF line = DontsHeader THEN "donts"
    ELSE IF line = GuidanceHeader THEN "guidance"
    ELSE IF line = ComplianceHeader THEN "compliance"
    ELSE IF line = RequirementsHeader THEN "requirements"
    ELSE IF line # <<>> /\ Head(line) = "[warning]" THEN "strict"
    ELSE IF line = ClosingLine THEN "closing"
    ELSE ""

\* The blocks of a text, in the order they open
BlocksOf(lines) ==
    LET opened == [i \in 1..Len(lines) |-> BlockOpenedBy(lines[i])]
    IN SelectSeq(opened, LAMBDA b : b # "")

LinesOpening(lines, block) == {i \in 1..Len(lines) : BlockOpenedBy(lines[i]) = block}

\* C25: the blocks of the instruction payload are, in this order, the role
\* statement, the required sections, the dos, the donts, the guidance lines
\* (which carry the token ceiling of the level), the compliance rules, the
\* additional requirements, the strict-mode sentence and the closing
\* instruction; the compliance block is there iff complianceRules is not
\* empty, the requirements block iff a requirement was supplied, the strict
\* sentence iff strictMode is set, and every other block always.
C25_BlockOrder ==
    (pgOut # NoCall /\ pgOut.kind = "text") =>
        LET config == pgIn.config
            rules == config.rulepack.complianceRules
        IN /\ BlocksOf(pgOut.lines) =
                 <<"role", "sections", "dos", "donts", "guidance">>
                 \o (IF rules.given /\ rules.list # <<>> THEN <<"compliance">> ELSE <<>>)
                 \o (IF config.additionalRequirements # <<>> THEN <<"requirements">> ELSE <<>>)
                 \o (IF config.strictMode THEN <<"strict">> ELSE <<>>)
                 \o <<"closing">>
           /\ \A g \in LinesOpening(pgOut.lines, "guidance") :
                 pgOut.lines[g + Len(GuidanceLines("", 0))] =
                    <<"6.">> \o NumberToString(pgIn.limits[config.level])
                       \o <<"tokeun inae jakseong jichimeul pohamhaseyo">>

\* A payload with requirements and the strict sentence but no compliance
\* block, for the intermediate level at its default ceiling
C25_Witness ==
    /\ pgOut # NoCall
    /\ pgOut.kind = "text"
    /\ pgIn.config.rulepack.complianceRules = [given |-> TRUE, list |-> <<>>]
    /\ pgIn.config.level = "intermediate"
    /\ pgIn.limits = DefaultLimits
    /\ BlocksOf(pgOut.lines) =
          <<"role", "sections", "dos", "donts", "guidance", "requirements", "strict", "closing">>
    /\ \E i \in 1..Len(pgOut.lines) :
          pgOut.lines[i] = <<"6.", "6", "0", "0", "tokeun inae jakseong jichimeul pohamhaseyo">>

-----------------------------------------------------------------------------
\* Math.ceil(k / 2.5 + e / 4): the sum of the two shares rounded up once
SingleRoundUp(chars) == CeilDiv(8 * chars.korean + 5 * chars.other, 20)

\* C26 as stated: the estimate of a text with k Hangul characters and e other
\* characters is the single round-up ceil(k / 2.5 + e / 4), 0 for the empty
\* text.
C26_SingleRoundUp ==
    tokLast # NoCall => tokLast.result.promptTokens = SingleRoundUp(tokLast.chars)

\* C26 as amended: the estimate is ceil(k / 2.5) + ceil(e / 4), each share
\* rounded up on its own; it is 0 for the empty text, never lower than the
\* single round-up of the sum and at most one token above it.
C26_RoundedPerShare ==
    tokLast # NoCall =>
        LET k == tokLast.chars.korean
            e == tokLast.chars.other
            estimate == tokLast.result.promptTokens
        IN /\ estimate = CeilDiv(2 * k, 5) + CeilDiv(e, 4)
           /\ estimate >= SingleRoundUp(tokLast.chars)
           /\ estimate <= SingleRoundUp(tokLast.chars) + 1
           /\ (k = 0 /\ e = 0) => estimate = 0

\* One Hangul character and one other character: two tokens, one above the
\* single round-up
C26_Witness ==
    /\ tokLast # NoCall
    /\ tokLast.chars = [korean |-> 1, other |-> 1]
    /\ tokLast.result.promptTokens = 2
    /\ SingleRoundUp(tokLast.chars) = 1

-----------------------------------------------------------------------------
(* ChecklistLoader.validateAgainstChecklist, given the checklist that        *)
(* loadChecklist resolved with.  evaluateChecklistItem is a function of the  *)
(* content and the item text: met is the set of item texts it accepts for    *)
(* the content at hand.  A number is [kind |-> "number", value] or NaN.      *)

NaN == [kind |-> "NaN"]
Number(n) == [kind |-> "number", value |-> n]

\* checklist.reduce((acc, category) => acc.concat(category.items), [])
RECURSIVE FlattenFrom(_, _)
FlattenFrom(checklist, i) ==
    IF i > Len(checklist) THEN <<>>
    ELSE checklist[i].items \o FlattenFrom(checklist, i + 1)

getFlatChecklist(checklist) == FlattenFrom(checklist, 1)

\* Math.round((passed / total) * 100): 0 / 0 is NaN, and so is its rounding
RoundedShare(passed, total) ==
    IF total = 0 THEN NaN ELSE Number(RoundPercent(passed, total))

\* ChecklistLoader.validateAgainstChecklist
validateAgainstChecklist(checklist, met) ==
    LET flat == getFlatChecklist(checklist)
        passed == SelectSeq(flat, LAMBDA item : item \in met)
        failed == SelectSeq(flat, LAMBDA item : item \notin met)
    IN [passed |-> passed, failed |-> failed, total |-> Len(flat),
        score |-> RoundedShare(Len(passed), Len(flat))]

\* The checklists explored: up to two categories of one or two items each
ChecklistItems == {"i1", "i2", "i3"}

SampleCategories ==
    {[category |-> <<c>>, items |-> items] :
        c \in {"A", "B"},
        items \in UNION {[1..n -> ChecklistItems] : n \in 1..2}}

SampleChecklists == UNION {[1..n -> SampleCategories] : n \in 0..2}

InitValidateChecklist ==
    /\ clock = 0 /\ ticks = 0 /\ ncalls = 0 /\ last = NoCall /\ win = EmptyStore
    /\ store = EmptyStore
    /\ vtext = EmptyText /\ vmade = NoCall /\ vformat = "press_release" /\ vres = NoCall
    /\ PostIdle
    /\ TokIdle /\ ModeIdle /\ MdIdle /\ RpIdle
    /\ CcIdle /\ SwIdle /\ PgIdle
    /\ \E checklist \in SampleChecklists, met \in SUBSET ChecklistItems :
          vcIn = [checklist |-> checklist, met |-> met]
    /\ vcOut = NoCall

\* One call validateAgainstChecklist(content, format, level) that returns
ValidateAgainstChecklist ==
    /\ vcOut = NoCall
    /\ vcOut' = validateAgainstChecklist(vcIn.checklist, vcIn.met)
    /\ UNCHANGED vcIn
    /\ UNCHANGED rlVars
    /\ UNCHANGED valVars
    /\ UNCHANGED postVars
    /\ UNCHANGED <<tokVars, modeVars, mdVars, rpVars>>
    /\ UNCHANGED <<ccVars, swVars, pgVars>>

NextValidateChecklist == ValidateAgainstChecklist

SpecValidateChecklist == InitValidateChecklist /\ [][NextValidateChecklist]_vars

\* all is a and b interleaved, each in its own order
RECURSIVE Interleaves(_, _, _)
Interleaves(all, a, b) ==
    IF all = <<>> THEN a = <<>> /\ b = <<>>
    ELSE \/ a # <<>> /\ Head(a) = Head(all) /\ Interleaves(Tail(all), Tail(a), b)
         \/ b # <<>> /\ Head(b) = Head(all) /\ Interleaves(Tail(all), a, Tail(b))

\* C27: validateAgainstChecklist returns passed and failed lists that
\* partition the flattened checklist in order, a total equal to their
\* combined length, and a score that is an integer percentage between 0 and
\* 100, for every checklist, one without items included.
C27_PartitionAndScore ==
    vcOut # NoCall =>
        /\ Interleaves(getFlatChecklist(vcIn.checklist), vcOut.passed, vcOut.failed)
        /\ \A i \in 1..Len(vcOut.passed) : vcOut.passed[i] \in vcIn.met
        /\ \A i \in 1..Len(vcOut.failed) : vcOut.failed[i] \notin vcIn.met
        /\ vcOut.total = Len(vcOut.passed) + Len(vcOut.failed)
        /\ vcOut.score.kind = "number"
        /\ vcOut.score.kind = "number" => vcOut.score.value \in 0..100

-----------------------------------------------------------------------------
\* C28: checkMultipleLimits calls checkLimit for every listed policy, also
\* after an earlier one denied: each listed counter is one higher than when
\* the request arrived (1 in a new window), a denied policy included, and a
\* counter that was live keeps its resetTime.
C28_EveryPolicyCounted ==
    (rateLimitResult # NoCall /\ arrival # NoCall) =>
        \A i \in 1..Len(arrival.checks) :
            LET key == KeyOf(arrival.checks[i].identifier, arrival.checks[i].configName)
                cfg == Configs[arrival.checks[i].configName]
                before == CountAt(arrival.store, key, arrival.now)
            IN /\ key \in DOMAIN store
               /\ store[key].count = before + 1
               /\ before > 0 => store[key].resetTime = arrival.store[key].resetTime
               /\ before = 0 => store[key].resetTime = arrival.now + cfg.windowMs
               /\ rateLimitResult.results[i].allowed <=> (before + 1 <= cfg.maxRequests)
               /\ rateLimitResult.results[i].remaining = Max(0, cfg.maxRequests - (before + 1))

\* A second request in a row denied by the burst policy alone: the burst
\* counter went on to maxRequests + 2 in the same window, and the default
\* counters of the IP and of the session were consumed
C28_Witness ==
    /\ rateLimitResult # NoCall
    /\ arrival # NoCall
    /\ Len(arrival.checks) = 3
    /\ ~rateLimitResult.allowed
    /\ rateLimitResult.results[1].allowed
    /\ ~rateLimitResult.results[2].allowed
    /\ rateLimitResult.results[3].allowed
    /\ store[KeyOf(Ip1, "burst")].count = BurstMaxRequests + 2
    /\ store[KeyOf(Ip1, "burst")].resetTime = arrival.store[KeyOf(Ip1, "burst")].resetTime
    /\ store[KeyOf(Ip1, "default")].count = arrival.store[KeyOf(Ip1, "default")].count + 1
    /\ store[KeyOf(Session1, "default")].count =
          CountAt(arrival.store, KeyOf(Session1, "default"), arrival.now) + 1

-----------------------------------------------------------------------------
\* The entry of the key of the last call was live after the previous call
\* and had expired when the last call was made
ExpiredInBetween ==
    /\ swLast.key \in DOMAIN swPrev.storeAfter
    /\ swLast.now > swPrev.storeAfter[swLast.key].resetTime

\* C29: getStatus is read-only and predictive.  It leaves every entry that
\* has not expired as it was and creates no entry, and the allowed value it
\* returns is the allowed value of the checkLimit call that follows it for
\* the same policy and identity, unless the window expires in between.
C29_StatusPredicts ==
    /\ (swLast # NoCall /\ swLast.op = "getStatus") =>
          /\ DOMAIN swLast.storeAfter \subseteq DOMAIN swLast.storeBefore
          /\ \A key \in DOMAIN swLast.storeBefore :
                ~(swLast.now > swLast.storeBefore[key].resetTime) =>
                    /\ key \in DOMAIN swLast.storeAfter
                    /\ swLast.storeAfter[key] = swLast.storeBefore[key]
    /\ (/\ swLast # NoCall /\ swPrev # NoCall
        /\ swLast.op = "checkLimit" /\ swPrev.op = "getStatus"
        /\ swLast.config = swPrev.config
        /\ ~ExpiredInBetween) =>
          swLast.plain.allowed = swPrev.plain.allowed

\* getStatus reported the allowance used up, and the checkLimit call that
\* followed in the same window was denied
C29_Witness ==
    /\ swLast # NoCall /\ swPrev # NoCall
    /\ swLast.op = "checkLimit" /\ swPrev.op = "getStatus"
    /\ swLast.config = swPrev.config
    /\ ~ExpiredInBetween
    /\ ~swPrev.plain.allowed
    /\ ~swLast.plain.allowed
    /\ swPrev.storeAfter = swPrev.storeBefore
    /\ swPrev.storeBefore[swPrev.key].count = Configs[swPrev.config].maxRequests

-----------------------------------------------------------------------------
\* C30: a request with options.includeWarnings = false is answered without
\* running the validator, with validation.passed = TRUE, score = 100 and an
\* empty checklist whatever text the model returned; every other request is
\* answered with passed = TRUE exactly when the validator reports isValid
\* and at least six of the seven checks pass, which is when the scorecard
\* percentage is 80 or more.
C30_SkippedOrScored ==
    [][\A format \in Formats, includeWarnings \in BOOLEAN :
          Post_Respond(format, includeWarnings) =>
              IF ~includeWarnings
              THEN /\ validationResults' = NoCall
                   /\ resp'.kind = "success"
                   /\ resp'.prompt = llmResponse.content
                   /\ resp'.validation = [passed |-> TRUE, score |-> 100, checklist |-> <<>>]
              ELSE LET vr == validatePrompt(llmResponse.content, format)
                   IN /\ validationResults' = vr
                      /\ resp'.validation.passed <=>
                            (vr.validation.isValid /\ vr.checklist.passedChecks >= TotalChecks - 1)
                      /\ (vr.checklist.score >= PassScoreThreshold) <=>
                            (vr.checklist.passedChecks >= TotalChecks - 1)]_vars

\* The text that leaks a meta-instruction was returned with the validator
\* skipped, and is reported as passed with score 100
C30_Witness ==
    /\ pc = "done"
    /\ resp.kind = "success"
    /\ validationResults = NoCall
    /\ resp.prompt = BuildText(LeakMaking, "press_release")
    /\ ~validatePrompt(resp.prompt, "press_release").validation.isValid
    /\ resp.validation = [passed |-> TRUE, score |-> 100, checklist |-> <<>>]

====
